---------------------------- MODULE Spec2Model ----------------------------
(***************************************************************************)
(* A model of nanotron's Qwen2 decoder (src/nanotron/models/qwen.py) and   *)
(* of its distributed sanity checks (src/nanotron/sanity_checks.py).       *)
(*                                                                         *)
(* The specifications share the module's variables; each one pins the      *)
(* variables of the other components to an idle value:                     *)
(*   SpecAttn    Qwen2Attention.forward / CoreAttention.forward            *)
(*   SpecMoE     Qwen2MoELayer._core_forward                               *)
(*   SpecLayers  Qwen2MoELayer.forward and Qwen2DecoderLayer.forward       *)
(*   Spec        the four sanity checkpoints run by every rank, and one    *)
(*               specification per checkpoint                              *)
(*   SpecSynced  assert_tensor_synced_across_pg on its own                 *)
(*   SpecCombine      Qwen2MoELayer._combine_expert_outputs on its own      *)
(*   SpecWindow       attention with a sliding window                       *)
(*   SpecLoss         Loss.forward and masked_mean                          *)
(*   SpecModel        Qwen2Model.forward, block after block                 *)
(*   SpecConstruction Qwen2Attention.__init__ and init_model_randomly       *)
(*   SpecCollective   the checkpoints' broadcasts under weak fairness       *)
(*   SpecDataloader   sanity_check_dataloader on every rank                 *)
(*                                                                         *)
(* Tensors are modelled by what the code reads of them: a layout (sizes    *)
(* and strides) where reshaping decides the outcome, exact rationals where *)
(* values are combined, one scalar per tensor where tensors are compared.  *)
(***************************************************************************)
EXTENDS Integers, Sequences, FiniteSets, TLC

VARIABLES
    \* ---- attention ----
    attn_in,      \* the inputs of Qwen2Attention.forward and its configuration
    attn_pc,      \* "idle" | "ready" | "returned" | "raised"
    attn_call,    \* what CoreAttention.forward handed to the attention function
    attn_out      \* what Qwen2Attention.forward computed and returned

attnVars == <<attn_in, attn_pc, attn_call, attn_out>>

VARIABLES
    \* ---- mixture of experts ----
    moe_in,       \* hidden states, router weight and configuration of the layer
    moe_pc,       \* "idle" | "ready" | "returned" | "raised"
    moe_route,    \* what _compute_router_probabilities returned
    moe_out       \* what _core_forward dispatched, ran and returned

moeVars == <<moe_in, moe_pc, moe_route, moe_out>>

VARIABLES
    \* ---- sanity checks ----
    san_cfg,      \* the checkpoint every rank calls and its arguments
    san_world,    \* per rank: parameters, gradients, buffers, optimizer state
    san_proc      \* per rank: where the call stands and what it has done

sanVars == <<san_cfg, san_world, san_proc>>

VARIABLES
    \* ---- decoder layer ----
    dec_in,       \* the inputs of Qwen2DecoderLayer.forward and its configuration
    dec_pc,       \* "idle" | "ready" | "returned" | "raised"
    dec_out       \* what Qwen2DecoderLayer.forward returned

decVars == <<dec_in, dec_pc, dec_out>>

VARIABLES
    \* ---- whole model: Qwen2Model, Loss, Qwen2ForTraining ----
    mod_in,       \* the arguments of the call and the model's configuration
    mod_pc,       \* where the call stands; per rank for sanity_check_dataloader
    mod_out       \* what the call did and returned

modVars == <<mod_in, mod_pc, mod_out>>

vars == <<attn_in, attn_pc, attn_call, attn_out, moe_in, moe_pc, moe_route, moe_out,
          san_cfg, san_world, san_proc, dec_in, dec_pc, dec_out,
          mod_in, mod_pc, mod_out>>

(***************************************************************************)
(* Bounds of the model.                                                    *)
(***************************************************************************)
MaxTokens == 4      \* batch_size * seq_length of a packed batch
MaxPos == 1         \* position ids range over -1 .. MaxPos
MaxHeads == 2       \* local attention heads
MaxHeadDim == 2     \* head_dim
MaxMoETokens == 2   \* tokens entering the MoE layer
MaxExperts == 3     \* moe_config.num_experts
MaxHidden == 1      \* hidden states range over -1 .. MaxHidden (hidden_size 1)
MaxRouterWeight == 1  \* router weights range over -1 .. MaxRouterWeight
MaxReplica == 1     \* data x context-parallel replicas are 0 .. MaxReplica
MaxDeviations == 2  \* tensors or flags that differ from the synchronized state

(***************************************************************************)
(* The sanity checks before any rank has been started.                     *)
(***************************************************************************)
SanIdle ==
    /\ san_cfg = [checkpoint |-> "idle", ignore_sanity_checks |-> TRUE,
                  grad_accumulator |-> FALSE]
    /\ san_world = {}
    /\ san_proc = <<>>

(***************************************************************************)
(* The decoder layer before it has been given an input.                    *)
(***************************************************************************)
DecIdle ==
    /\ dec_in = [hidden_states |-> <<>>]
    /\ dec_pc = "idle"
    /\ dec_out = [status |-> "none"]

(***************************************************************************)
(* The model-level calls before any of them has been given arguments.      *)
(***************************************************************************)
ModIdle ==
    /\ mod_in = [call |-> "none"]
    /\ mod_pc = "idle"
    /\ mod_out = [status |-> "none"]

(***************************************************************************)
(* Arithmetic helpers.                                                     *)
(***************************************************************************)
RECURSIVE Prod(_)
Prod(s) == IF s = <<>> THEN 1 ELSE Head(s) * Prod(Tail(s))

Abs(x) == IF x < 0 THEN 0 - x ELSE x

RECURSIVE Gcd(_, _)
Gcd(a, b) == IF b = 0 THEN a ELSE Gcd(b, a % b)

RECURSIVE Pow2(_)
Pow2(n) == IF n <= 0 THEN 1 ELSE 2 * Pow2(n - 1)

(***************************************************************************)
(* Exact rationals <<numerator, denominator>>, denominator positive, in    *)
(* lowest terms: the values of activations and routing weights.            *)
(***************************************************************************)
Rat(n, d) ==
    LET g == Gcd(Abs(n), Abs(d))
        sgn == IF d < 0 THEN -1 ELSE 1
    IN <<sgn * (n \div g), sgn * (d \div g)>>

RatInt(n) == <<n, 1>>
RatAdd(a, b) == Rat(a[1] * b[2] + b[1] * a[2], a[2] * b[2])
RatMul(a, b) == Rat(a[1] * b[1], a[2] * b[2])

\* The sum of f[x] over the x of a finite set S.
RECURSIVE RatSum(_, _)
RatSum(f, S) ==
    IF S = {} THEN RatInt(0)
    ELSE LET x == CHOOSE y \in S : TRUE IN RatAdd(f[x], RatSum(f, S \ {x}))

(***************************************************************************)
(* Tensor layouts: sizes and strides, as torch keeps them.  A failed       *)
(* reshape is the layout NoLayout (torch raises RuntimeError).             *)
(***************************************************************************)
NoLayout == [ok |-> FALSE, shape |-> <<>>, stride |-> <<>>]

Layout(shape, stride) == [ok |-> TRUE, shape |-> shape, stride |-> stride]

\* A freshly allocated tensor of the given sizes (row-major strides).
Contiguous(shape) ==
    Layout(shape, [d \in 1..Len(shape) |-> Prod(SubSeq(shape, d + 1, Len(shape)))])

\* tensor.shape[dim] / tensor.numel()
Numel(t) == Prod(t.shape)

\* tensor.transpose(d0, d1) of an evaluated layout, dims numbered from 0 as
\* in the source.
TransposeOf(t, d0, d1) ==
    IF ~t.ok THEN NoLayout
    ELSE LET swap(s) == [d \in 1..Len(s) |->
                            IF d = d0 + 1 THEN s[d1 + 1]
                            ELSE IF d = d1 + 1 THEN s[d0 + 1] ELSE s[d]]
         IN Layout(swap(t.shape), swap(t.stride))

\* tensor.transpose(d0, d1); the tensor expression is evaluated once.
Transpose(t, d0, d1) == CHOOSE r \in {TransposeOf(tt, d0, d1) : tt \in {t}} : TRUE

\* One column block of tensor.split(sizes, dim=-1) of a 2-d tensor: the rows
\* keep the stride of the whole tensor.
SplitLast(t, size) == Layout(<<t.shape[1], size>>, t.stride)

\* torch's infer_size: the sizes a view asks for, with one -1 filled in;
\* <<>> when the sizes do not fit the number of elements.
InferSize(shape, numel) ==
    LET known == Prod([d \in 1..Len(shape) |-> IF shape[d] = -1 THEN 1 ELSE shape[d]])
        holes == {d \in 1..Len(shape) : shape[d] = -1}
    IN IF holes = {}
       THEN IF known = numel THEN shape ELSE <<>>
       ELSE IF known > 0 /\ numel % known = 0
            THEN [d \in 1..Len(shape) |-> IF shape[d] = -1 THEN numel \div known ELSE shape[d]]
            ELSE <<>>

\* The inner while loop of torch's computeStride: give strides to the view's
\* dimensions, last first, until they cover the current chunk of the tensor.
RECURSIVE ViewFill(_, _, _, _, _, _)
ViewFill(newshape, view_d, view_numel, tensor_numel, base, newstride) ==
    IF view_d >= 1 /\ (view_numel < tensor_numel \/ newshape[view_d] = 1)
    THEN ViewFill(newshape, view_d - 1, view_numel * newshape[view_d], tensor_numel,
                  base, [newstride EXCEPT ![view_d] = view_numel * base])
    ELSE [view_d |-> view_d, view_numel |-> view_numel, newstride |-> newstride]

\* torch's computeStride: the strides of a view of the given sizes over a
\* tensor of sizes oldshape and strides oldstride, or <<>> when the view
\* would have to copy (tensor.view then raises).
RECURSIVE ComputeStride(_, _, _, _, _, _, _, _)
RECURSIVE ComputeStrideChunk(_, _, _, _, _, _)
ComputeStride(oldshape, oldstride, newshape, tensor_d, view_d, base, tensor_numel, newstride) ==
    IF tensor_d = 0 THEN (IF view_d # 0 THEN <<>> ELSE newstride)
    ELSE CHOOSE r \in
            {IF ~(\/ tensor_d = 1
                  \/ /\ oldshape[tensor_d - 1] # 1
                     /\ oldstride[tensor_d - 1] # tn * base)
             THEN ComputeStride(oldshape, oldstride, newshape, tensor_d - 1,
                                vd, base, tn, ns)
             ELSE ComputeStrideChunk(oldshape, oldstride, newshape, tensor_d, tn,
                                     ViewFill(newshape, vd, 1, tn, base, ns)) :
                tn \in {tensor_numel * oldshape[tensor_d]}, vd \in {view_d},
                ns \in {newstride}} : TRUE

\* The end of a chunk in computeStride: f is what the inner loop left.
ComputeStrideChunk(oldshape, oldstride, newshape, tensor_d, tn, f) ==
    CHOOSE r \in
        {IF ff.view_numel # tn THEN <<>>
         ELSE ComputeStride(oldshape, oldstride, newshape, tensor_d - 1,
                            ff.view_d,
                            IF tensor_d = 1 THEN 1 ELSE oldstride[tensor_d - 1],
                            1, ff.newstride) : ff \in {f}} : TRUE

\* tensor.view(*shape): never copies; fails when the sizes do not fit or the
\* strides cannot express them.
ViewOf(t, sizes) ==
    IF sizes = <<>> THEN NoLayout
    ELSE CHOOSE r \in
            {IF st = <<>> THEN NoLayout ELSE Layout(sizes, st) :
                st \in {ComputeStride(t.shape, t.stride, sizes, Len(t.shape),
                                      Len(sizes), t.stride[Len(t.stride)], 1,
                                      [d \in 1..Len(sizes) |-> 0])}} : TRUE

View(t, shape) ==
    CHOOSE r \in
        {IF ~tt.ok THEN NoLayout
         ELSE CHOOSE v \in {ViewOf(tt, sizes) :
                    sizes \in {InferSize(shape, Numel(tt))}} : TRUE :
            tt \in {t}} : TRUE


(***************************************************************************)
(* Attention: Qwen2Attention.forward and CoreAttention.forward.            *)
(***************************************************************************)

\* The keys of ALL_ATTENTION_FUNCTIONS the model distinguishes: the two that
\* CoreAttention.forward special-cases and one that takes the default branch.
RegisteredAttention == {"sdpa", "ring", "ring_flash_triton"}

\* The packed batches the model draws: [batch_size, seq_length] position ids.
BatchShapes == {bs \in (1..MaxTokens) \X (1..MaxTokens) : bs[1] * bs[2] <= MaxTokens}

PositionIds(bs) == [1..bs[1] -> [1..bs[2] -> -1..MaxPos]]

\* position_ids.masked_fill(position_ids == -1, 0)
\* Mutant: the result of masked_fill is dropped (it is not in place).
MaskedFill_Dropped(position_ids) == position_ids

MaskedFill(position_ids) ==
    [b \in 1..Len(position_ids) |->
        [s \in 1..Len(position_ids[b]) |->
            IF position_ids[b][s] = -1 THEN 0 ELSE position_ids[b][s]]]

\* position_ids.view(-1): the rows one after the other.
RECURSIVE Flatten(_)
Flatten(position_ids) ==
    IF position_ids = <<>> THEN <<>> ELSE Head(position_ids) \o Flatten(Tail(position_ids))

\* The elements of a set of integers in increasing order.
RECURSIVE SortedSeq(_)
SortedSeq(S) ==
    IF S = {} THEN <<>>
    ELSE LET m == CHOOSE x \in S : \A y \in S : x <= y
         IN <<m>> \o SortedSeq(S \ {m})

\* torch.where(position_ids == 0)[0]: the token indices (from 0) holding 0.
StartIndices(position_ids) ==
    SortedSeq({i \in 0..(Len(position_ids) - 1) : position_ids[i + 1] = 0})

\* The loop of get_attention_mask: document i gets a lower-triangular block.
\* The mask is the set of the pairs <<row, column>> (from 0) that are true.
RECURSIVE MaskLoop(_, _, _)
MaskLoop(cu_seqlens, i, attention_mask) ==
    IF i > Len(cu_seqlens) - 1 THEN attention_mask
    ELSE LET block == cu_seqlens[i]..(cu_seqlens[i + 1] - 1)
             tril == {rc \in block \X block : rc[2] <= rc[1]}
         IN MaskLoop(cu_seqlens, i + 1, (attention_mask \ (block \X block)) \cup tril)

get_attention_mask(position_ids, seq_length) ==
    LET cu_seqlens == StartIndices(position_ids) \o <<seq_length>>
    IN [attention_mask |-> MaskLoop(cu_seqlens, 1, {}), cu_seqlens |-> cu_seqlens]

\* config.sliding_window: <<w>> for a window of w tokens, <<>> for None.
NoWindow == <<>>

\* The configuration without sliding-window attention (the getattr defaults).
WindowOff == [use_sliding_window |-> FALSE, sliding_window |-> NoWindow,
              max_window_layers |-> 0, layer_idx |-> 0]

\* The test of CoreAttention.forward for "sliding window should be applied"
\* and the value read when it holds.
SlidingWindowOf(cfg) ==
    IF /\ cfg.window.use_sliding_window
       /\ cfg.window.sliding_window # NoWindow
       /\ cfg.window.layer_idx >= cfg.window.max_window_layers
    THEN cfg.window.sliding_window ELSE NoWindow

\* Nothing was handed to the attention function.
NoCall == [called |-> FALSE, query |-> <<>>, key |-> <<>>, value |-> <<>>,
           mask_given |-> FALSE, attention_mask |-> {},
           cu_given |-> FALSE, cu_seqlens |-> <<>>,
           window_given |-> FALSE, sliding_window |-> NoWindow]

\* The attention function's result [0]: a fresh tensor [batch, seq, heads,
\* head_dim] for a query [batch, heads, seq, head_dim].
AttentionOutput(query) ==
    Contiguous(<<query.shape[1], query.shape[3], query.shape[2], query.shape[4]>>)

\* CoreAttention.forward on the layouts of q, k, v.
CoreAttention_forward(cfg, query_states, key_states, value_states, attention_mask, cu_seqlens) ==
    IF cfg.impl \notin RegisteredAttention
    THEN [status |-> "KeyError", call |-> NoCall, output |-> NoLayout,
          window_read |-> NoWindow]
    ELSE
    LET seq_length == cfg.tokens   \* attention_mask.shape[0]
        \* the value of the expression statement of line 81, bound to nothing
        window_read == SlidingWindowOf(cfg)
        H == cfg.local_num_heads
        KV == cfg.local_num_kv_heads
        D == cfg.head_dim
        Branch(t, heads) ==
            IF cfg.impl = "ring_flash_triton" THEN View(t, <<-1, seq_length, heads, D>>)
            ELSE IF cfg.impl = "ring" THEN View(t, <<-1, heads, D>>)
            ELSE Transpose(View(t, <<-1, seq_length, heads, D>>), 1, 2)
        Arg(t, heads) == Transpose(View(Transpose(t, 1, 2), <<3, -1, heads, D>>), 1, 2)
        q == Arg(Branch(query_states, H), H)
        k == Arg(Branch(key_states, KV), KV)
        v == Arg(Branch(value_states, KV), KV)
    IN IF ~(q.ok /\ k.ok /\ v.ok)
       THEN [status |-> "RuntimeError", call |-> NoCall, output |-> NoLayout,
             window_read |-> window_read]
       ELSE LET out == View(AttentionOutput(q), <<-1, H * D>>)
            IN [status |-> IF out.ok THEN "ok" ELSE "RuntimeError",
                call |-> [called |-> TRUE, query |-> q.shape, key |-> k.shape,
                          value |-> v.shape,
                          mask_given |-> FALSE, attention_mask |-> {},
                          cu_given |-> FALSE, cu_seqlens |-> <<>>,
                          \* sliding_window= is commented out in the call
                          window_given |-> FALSE, sliding_window |-> NoWindow],
                output |-> out,
                window_read |-> window_read]

\* Qwen2Attention.forward up to and including the call of self.attention.
Qwen2Attention_compute(cfg, position_ids_in) ==
    LET position_ids == Flatten(MaskedFill(position_ids_in))
        H == cfg.local_num_heads
        KV == cfg.local_num_kv_heads
        D == cfg.head_dim
        qkv == Contiguous(<<cfg.tokens, H * D + 2 * KV * D>>)
        \* apply_rotary_pos_emb returns fresh tensors for q and k; v stays a
        \* view of the fused projection.
        q == Contiguous(View(SplitLast(qkv, H * D), <<-1, H, D>>).shape)
        k == Contiguous(View(SplitLast(qkv, KV * D), <<-1, KV, D>>).shape)
        v == View(SplitLast(qkv, KV * D), <<-1, KV, D>>)
        m == get_attention_mask(position_ids, q.shape[1])
        core == CoreAttention_forward(cfg, q, k, v, m.attention_mask, m.cu_seqlens)
    IN [position_ids |-> position_ids, attention_mask |-> m.attention_mask,
        cu_seqlens |-> m.cu_seqlens, core |-> core]

AttnIdleIn == [position_ids |-> <<>>, cfg |-> [impl |-> "none"]]
AttnIdleOut == [position_ids |-> <<>>]

\* The sliding-window settings of the configuration and the layer's index.
WindowConfigs ==
    [use_sliding_window : BOOLEAN, sliding_window : {NoWindow, <<1>>, <<2>>},
     max_window_layers : 0..1, layer_idx : 0..1]

AttnIdle ==
    /\ attn_in = AttnIdleIn
    /\ attn_pc = "idle"
    /\ attn_call = NoCall
    /\ attn_out = AttnIdleOut

InitAttn ==
    /\ \E bs \in BatchShapes, impl \in RegisteredAttention,
          H \in 1..MaxHeads, D \in 1..MaxHeadDim :
         \E KV \in {n \in 1..H : H % n = 0}, p \in PositionIds(bs) :
            attn_in = [position_ids |-> p,
                       cfg |-> [impl |-> impl, tokens |-> bs[1] * bs[2],
                                local_num_heads |-> H, local_num_kv_heads |-> KV,
                                head_dim |-> D, window |-> WindowOff]]
    /\ attn_pc = "ready"
    /\ attn_call = NoCall
    /\ attn_out = AttnIdleOut

\* Layers with and without sliding-window attention, below and at the
\* threshold max_window_layers, one head of dimension 1.
InitAttnWindow ==
    /\ \E bs \in BatchShapes, impl \in RegisteredAttention, w \in WindowConfigs :
         \E p \in PositionIds(bs) :
            attn_in = [position_ids |-> p,
                       cfg |-> [impl |-> impl, tokens |-> bs[1] * bs[2],
                                local_num_heads |-> 1, local_num_kv_heads |-> 1,
                                head_dim |-> 1, window |-> w]]
    /\ attn_pc = "ready"
    /\ attn_call = NoCall
    /\ attn_out = AttnIdleOut

\* One call of Qwen2Attention.forward.
Qwen2Attention_forward ==
    /\ attn_pc = "ready"
    /\ \E r \in {Qwen2Attention_compute(attn_in.cfg, attn_in.position_ids)} :
          /\ attn_call' = r.core.call
          /\ attn_pc' = IF r.core.status = "ok" THEN "returned" ELSE "raised"
          /\ attn_out' = [position_ids |-> r.position_ids,
                          attention_mask |-> r.attention_mask,
                          cu_seqlens |-> r.cu_seqlens,
                          status |-> r.core.status,
                          window_read |-> r.core.window_read,
                          rows |-> IF r.core.status = "ok" THEN r.core.output.shape[1] ELSE 0,
                          width |-> IF r.core.status = "ok" THEN r.core.output.shape[2] ELSE 0]
    /\ UNCHANGED <<attn_in, moeVars, sanVars, decVars, modVars>>


(***************************************************************************)
(* Mixture of experts: Qwen2MoELayer.  hidden_size and intermediate_size   *)
(* are 1, so a token's hidden state, a router weight and an expert's       *)
(* gate/up/down weights are scalars.  hidden_act is relu (a key of ACT2FN  *)
(* whose values stay rational).  Tokens are numbered from 1, experts from  *)
(* 0 as in the source.                                                     *)
(***************************************************************************)

\* The weights of expert e's Qwen2MLP: gate, up and down projection.
ExpertGate(e) == IF e % 2 = 0 THEN 1 ELSE -1
ExpertUp(e) == e + 1
ExpertDown(e) == 1

\* Qwen2MLP.forward of expert e on one row: down_proj(act(gate) * up).
Qwen2MLP_forward(e, x) ==
    LET gate_states == RatMul(RatInt(ExpertGate(e)), x)
        up_states == RatMul(RatInt(ExpertUp(e)), x)
        act == IF gate_states[1] > 0 THEN gate_states ELSE RatInt(0)
    IN RatMul(RatInt(ExpertDown(e)), RatMul(act, up_states))

\* self.router(hidden_states): a linear layer without bias.
RouterLogits(router, hidden_states) ==
    [t \in 1..Len(hidden_states) |->
        [e \in DOMAIN router |-> router[e] * hidden_states[t]]]

\* The results torch.topk(logits, k) may return for one row: k distinct
\* indices, values in decreasing order, no index left out has a larger value;
\* which of several equal values comes first is the kernel's choice.
TopK(logits, k) ==
    {idx \in [1..k -> DOMAIN logits] :
        /\ \A a, b \in 1..k : a # b => idx[a] # idx[b]
        /\ \A a \in 1..(k - 1) : logits[idx[a]] >= logits[idx[a + 1]]
        /\ \A e \in DOMAIN logits :
              (\A a \in 1..k : idx[a] # e) => \A a \in 1..k : logits[idx[a]] >= logits[e]}

\* F.softmax over one row of values (integers): exp is taken to base 2, so
\* that the weights are exact rationals.
Softmax(values) ==
    LET lo == CHOOSE m \in {values[a] : a \in DOMAIN values} :
                  \A a \in DOMAIN values : m <= values[a]
        total == RatSum([a \in DOMAIN values |-> RatInt(Pow2(values[a] - lo))], DOMAIN values)
    IN [a \in DOMAIN values |-> Rat(Pow2(values[a] - lo), total[1])]

\* Mutant: softmax over the logits of all experts, the top-k picked afterwards.
RouterProbabilities_SoftmaxBeforeTopK(router_logits, routing_indices) ==
    [t \in DOMAIN router_logits |->
        [a \in DOMAIN routing_indices[t] |-> Softmax(router_logits[t])[routing_indices[t][a]]]]

\* _compute_router_probabilities for a given outcome of topk.
RouterProbabilities(router_logits, routing_indices) ==
    [t \in DOMAIN router_logits |->
        Softmax([a \in DOMAIN routing_indices[t] |-> router_logits[t][routing_indices[t][a]]])]

\* (routing_indices == expert_idx).any(dim=-1)
ExpertMask(routing_indices, expert_idx) ==
    {t \in DOMAIN routing_indices :
        \E a \in DOMAIN routing_indices[t] : routing_indices[t][a] = expert_idx}

\* Mutant: the <<token, slot>> pairs slot by slot (column-major order).
RECURSIVE Nonzero_ColumnMajor(_, _, _, _)
Nonzero_ColumnMajor(routing_indices, expert_idx, t, a) ==
    IF a > Len(routing_indices[1]) THEN <<>>
    ELSE IF t > Len(routing_indices)
    THEN Nonzero_ColumnMajor(routing_indices, expert_idx, 1, a + 1)
    ELSE (IF routing_indices[t][a] = expert_idx THEN <<(<<t, a>>)>> ELSE <<>>)
         \o Nonzero_ColumnMajor(routing_indices, expert_idx, t + 1, a)

\* (routing_indices == expert_idx).nonzero(as_tuple=True): the <<token, slot>>
\* pairs in row-major order.
RECURSIVE Nonzero(_, _, _, _)
Nonzero(routing_indices, expert_idx, t, a) ==
    IF t > Len(routing_indices) THEN <<>>
    ELSE IF a > Len(routing_indices[t]) THEN Nonzero(routing_indices, expert_idx, t + 1, 1)
    ELSE (IF routing_indices[t][a] = expert_idx THEN <<(<<t, a>>)>> ELSE <<>>)
         \o Nonzero(routing_indices, expert_idx, t, a + 1)

\* tensor[mask]: the rows of the tokens of the mask, in token order.
Gather(rows, mask) == LET ts == SortedSeq(mask) IN [r \in 1..Len(ts) |-> rows[ts[r]]]

\* One iteration of the loop of _dispatch_tokens.  tokens_for_expert *
\* expert_weights multiplies row by row, broadcasting a single row; other
\* row counts that differ make the product fail.
DispatchExpert(hidden_states, routing_weights, routing_indices, expert_idx) ==
    LET tokens_for_expert == Gather(hidden_states, ExpertMask(routing_indices, expert_idx))
        expert_positions == Nonzero(routing_indices, expert_idx, 1, 1)
        expert_weights == [r \in 1..Len(expert_positions) |->
                              routing_weights[expert_positions[r][1]][expert_positions[r][2]]]
        n == Len(tokens_for_expert)
        m == Len(expert_weights)
        rows == IF n >= m THEN n ELSE m
    IN [ok |-> (n = m \/ n = 1 \/ m = 1),
        scaled_inputs |->
            IF n = m \/ n = 1 \/ m = 1
            THEN [r \in 1..rows |->
                    RatMul(RatInt(tokens_for_expert[IF n = 1 THEN 1 ELSE r]),
                           expert_weights[IF m = 1 THEN 1 ELSE r])]
            ELSE <<>>,
        \* the token each row of tokens_for_expert is the row of
        gathered_tokens |-> SortedSeq(ExpertMask(routing_indices, expert_idx)),
        token_positions |-> [r \in 1..m |-> expert_positions[r][1]],
        k_positions |-> [r \in 1..m |-> expert_positions[r][2]],
        expert_weights |-> expert_weights,
        count |-> n]

\* Mutant: every expert counts as local.
NumLocalExperts_AllExperts(cfg) == cfg.num_experts

\* self.num_local_experts
NumLocalExperts(cfg) == cfg.num_experts \div cfg.expert_parallel_size

\* _dispatch_tokens: one entry per local expert, 0 .. num_local_experts - 1.
dispatch_tokens(cfg, hidden_states, routing_weights, routing_indices) ==
    [expert_idx \in 0..(NumLocalExperts(cfg) - 1) |->
        DispatchExpert(hidden_states, routing_weights, routing_indices, expert_idx)]

\* Mutant: the expert runs even when no token was dispatched to it.
ExpertStep_NoSkip(dispatched, expert_idx) ==
    [ran |-> TRUE,
     output |-> [r \in 1..Len(dispatched[expert_idx].scaled_inputs) |->
                    Qwen2MLP_forward(expert_idx, dispatched[expert_idx].scaled_inputs[r])]]

\* One iteration of the loop of _core_forward over the dispatched inputs: an
\* expert with a count of 0 is skipped and an empty tensor recorded.
ExpertStep(dispatched, expert_idx) ==
    IF dispatched[expert_idx].count = 0
    THEN [ran |-> FALSE, output |-> <<>>]
    ELSE [ran |-> TRUE,
          output |-> [r \in 1..Len(dispatched[expert_idx].scaled_inputs) |->
                         Qwen2MLP_forward(expert_idx, dispatched[expert_idx].scaled_inputs[r])]]

\* Mutant: the rows of an expert overwrite the combined rows (= for +=).
RECURSIVE CombineLoop_Overwrite(_, _, _, _)
CombineLoop_Overwrite(expert_outputs, routing_indices, expert_idx, combined_output) ==
    IF expert_idx \notin DOMAIN expert_outputs THEN combined_output
    ELSE IF Len(expert_outputs[expert_idx]) = 0
    THEN CombineLoop_Overwrite(expert_outputs, routing_indices, expert_idx + 1, combined_output)
    ELSE LET ts == SortedSeq(ExpertMask(routing_indices, expert_idx))
             row(t) == CHOOSE r \in 1..Len(ts) : ts[r] = t
         IN CombineLoop_Overwrite(expert_outputs, routing_indices, expert_idx + 1,
                        [t \in DOMAIN combined_output |->
                            IF t \in ExpertMask(routing_indices, expert_idx)
                            THEN expert_outputs[expert_idx][row(t)]
                            ELSE combined_output[t]])

\* The loop of _combine_expert_outputs, from expert_idx on.
RECURSIVE CombineLoop(_, _, _, _)
CombineLoop(expert_outputs, routing_indices, expert_idx, combined_output) ==
    IF expert_idx \notin DOMAIN expert_outputs THEN combined_output
    ELSE IF Len(expert_outputs[expert_idx]) = 0
    THEN CombineLoop(expert_outputs, routing_indices, expert_idx + 1, combined_output)
    ELSE LET ts == SortedSeq(ExpertMask(routing_indices, expert_idx))
             row(t) == CHOOSE r \in 1..Len(ts) : ts[r] = t
             out(t) == expert_outputs[expert_idx][IF Len(expert_outputs[expert_idx]) = 1
                                                  THEN 1 ELSE row(t)]
         IN CombineLoop(expert_outputs, routing_indices, expert_idx + 1,
                        [t \in DOMAIN combined_output |->
                            IF t \in ExpertMask(routing_indices, expert_idx)
                            THEN RatAdd(combined_output[t], out(t))
                            ELSE combined_output[t]])

\* _combine_expert_outputs: starts from torch.zeros(original_shape).
combine_expert_outputs(expert_outputs, routing_indices, tokens) ==
    CombineLoop(expert_outputs, routing_indices, 0, [t \in 1..tokens |-> RatInt(0)])

\* Whether combined_output[expert_mask] += expert_output fits, for every
\* expert that is not skipped.
CombineFits(expert_outputs, routing_indices) ==
    \A e \in DOMAIN expert_outputs :
        Len(expert_outputs[e]) \in {0, 1, Cardinality(ExpertMask(routing_indices, e))}

\* Qwen2MoELayer._core_forward for a given outcome of topk.
core_forward_experts(dispatched, routing_indices, tokens) ==
    LET dispatch_ok == \A e \in DOMAIN dispatched : dispatched[e].ok
    IN CHOOSE result \in
        {LET expert_outputs == [e \in DOMAIN dispatched |-> steps[e].output]
             ok == dispatch_ok /\ CombineFits(expert_outputs, routing_indices)
         IN [status |-> IF ok THEN "ok" ELSE "RuntimeError",
             expert_counts |-> [e \in DOMAIN dispatched |-> dispatched[e].count],
             dispatched_inputs |->
                [e \in DOMAIN dispatched |-> dispatched[e].scaled_inputs],
             dispatched |-> dispatched,
             invoked |-> IF dispatch_ok
                         THEN {e \in DOMAIN dispatched : steps[e].ran} ELSE {},
             expert_outputs |-> IF dispatch_ok THEN expert_outputs ELSE <<>>,
             output |-> IF ok
                        THEN combine_expert_outputs(expert_outputs, routing_indices,
                                                    tokens)
                        ELSE <<>>] :
            steps \in {[e \in DOMAIN dispatched |-> ExpertStep(dispatched, e)]}} : TRUE

\* torch.sigmoid of an integer, exp taken to base 2 so that the value is an
\* exact rational
Sigmoid(x) ==
    IF x >= 0 THEN Rat(Pow2(x), Pow2(x) + 1) ELSE Rat(1, Pow2(-x) + 1)

\* self.shared_expert is one more Qwen2MLP, with weights of its own
SharedExpertIdx == 2 * MaxExperts

\* the weight of self.shared_expert_gate, a linear layer hidden_size -> 1
\* without bias
SharedGateWeight == 1

\* Mutant: the gate without the sigmoid.
SharedGate_Linear(hidden_states) ==
    [t \in DOMAIN hidden_states |-> RatInt(SharedGateWeight * hidden_states[t])]

\* torch.sigmoid(self.shared_expert_gate(hidden_states))
SharedGate(hidden_states) ==
    [t \in DOMAIN hidden_states |-> Sigmoid(SharedGateWeight * hidden_states[t])]

\* self.shared_expert(hidden_states=hidden_states)["hidden_states"]
SharedExpertOutput(hidden_states) ==
    [t \in DOMAIN hidden_states |->
        Qwen2MLP_forward(SharedExpertIdx, RatInt(hidden_states[t]))]

\* The end of _core_forward: the shared expert's contribution is added to the
\* combined output r.output if the layer was built with one.
add_shared_expert(cfg, hidden_states, r) ==
    CHOOSE result \in
        {[status |-> r.status,
          expert_counts |-> r.expert_counts,
          dispatched_inputs |-> r.dispatched_inputs,
          dispatched |-> r.dispatched,
          invoked |-> r.invoked,
          expert_outputs |-> r.expert_outputs,
          routed_output |-> r.output,
          shared_expert_ran |-> shared,
          shared_gate |-> IF shared THEN shared_gate ELSE <<>>,
          output |-> IF shared
                     THEN [t \in DOMAIN r.output |->
                             RatAdd(r.output[t],
                                    RatMul(shared_gate[t], shared_expert_output[t]))]
                     ELSE r.output] :
            shared \in {r.status = "ok" /\ cfg.enable_shared_expert},
            shared_gate \in {SharedGate(hidden_states)},
            shared_expert_output \in {SharedExpertOutput(hidden_states)}} : TRUE

core_forward(cfg, hidden_states, routing_weights, routing_indices) ==
    CHOOSE result \in
        {add_shared_expert(cfg, hidden_states, r) :
            r \in {core_forward_experts(
                        dispatch_tokens(cfg, hidden_states, routing_weights,
                                        routing_indices),
                        routing_indices, Len(hidden_states))}} : TRUE

\* the activations _core_forward leaves behind for the backward pass
CoreActivations ==
    {"router_logits", "routing_weights", "dispatched_inputs", "expert_outputs",
     "combined_output"}

\* CheckpointFunction.apply(self._core_forward, True, hidden_states): the
\* function runs under no_grad on the arguments, its outputs are returned,
\* the arguments are saved and no activation of the function is retained
checkpointed_forward(cfg, hidden_states, routing_weights, routing_indices) ==
    CHOOSE result \in
        {[status |-> core.status, hidden_states |-> core.output, core |-> core,
          checkpointed |-> TRUE, saved_inputs |-> hidden_states, retained |-> {}] :
            core \in {core_forward(cfg, hidden_states, routing_weights,
                                   routing_indices)}} : TRUE

\* Mutant: the checkpointed path runs the function on the zeroed input.
Qwen2MoELayer_forward_CheckpointOnZeros(cfg, training, hidden_states, routing_weights, routing_indices) ==
    IF cfg.recompute_layer /\ training
    THEN checkpointed_forward(cfg, [t \in DOMAIN hidden_states |-> 0],
                              routing_weights, routing_indices)
    ELSE CHOOSE result \in
        {[status |-> core.status, hidden_states |-> core.output, core |-> core,
          checkpointed |-> FALSE, saved_inputs |-> <<>>,
          retained |-> IF core.status = "ok" THEN CoreActivations ELSE {}] :
            core \in {core_forward(cfg, hidden_states, routing_weights,
                                   routing_indices)}} : TRUE

\* Qwen2MoELayer.forward for a given outcome of topk
Qwen2MoELayer_forward_result(cfg, training, hidden_states, routing_weights, routing_indices) ==
    IF cfg.recompute_layer /\ training
    THEN checkpointed_forward(cfg, hidden_states, routing_weights, routing_indices)
    ELSE CHOOSE result \in
        {[status |-> core.status, hidden_states |-> core.output, core |-> core,
          checkpointed |-> FALSE, saved_inputs |-> <<>>,
          retained |-> IF core.status = "ok" THEN CoreActivations ELSE {}] :
            core \in {core_forward(cfg, hidden_states, routing_weights,
                                   routing_indices)}} : TRUE

MoeIdleIn == [hidden_states |-> <<>>]
MoeIdleRoute == [routing_indices |-> <<>>]
MoeIdleOut == [status |-> "none"]

MoeIdle ==
    /\ moe_in = MoeIdleIn
    /\ moe_pc = "idle"
    /\ moe_route = MoeIdleRoute
    /\ moe_out = MoeIdleOut

\* The configurations drawn: top_k <= num_experts (topk raises otherwise)
\* and at least one local expert.
MoeLayerConfigs ==
    {c \in [num_experts : 1..MaxExperts, top_k : 1..MaxExperts,
            expert_parallel_size : 1..MaxExperts,
            enable_shared_expert : BOOLEAN, recompute_layer : BOOLEAN] :
        c.top_k <= c.num_experts /\ c.expert_parallel_size <= c.num_experts}

\* The configurations _core_forward is called on by itself: the defaults of
\* enable_shared_expert and recompute_layer.
MoeConfigs ==
    {c \in MoeLayerConfigs : ~c.enable_shared_expert /\ ~c.recompute_layer}

InitMoE ==
    /\ \E T \in 1..MaxMoETokens, cfg \in MoeConfigs :
         \E h \in [1..T -> -1..MaxHidden],
            router \in [0..(cfg.num_experts - 1) -> -1..MaxRouterWeight] :
            moe_in = [hidden_states |-> h, router |-> router, cfg |-> cfg]
    /\ moe_pc = "ready"
    /\ moe_route = MoeIdleRoute
    /\ moe_out = MoeIdleOut
    /\ AttnIdle

\* One call of Qwen2MoELayer._core_forward.
Qwen2MoELayer_core_forward ==
    /\ moe_pc = "ready"
    /\ \E router_logits \in {RouterLogits(moe_in.router, moe_in.hidden_states)} :
       \E topk \in {[t \in DOMAIN router_logits |->
                        TopK(router_logits[t], moe_in.cfg.top_k)]} :
       \E routing_indices \in
                {ri \in [DOMAIN router_logits -> UNION {topk[t] : t \in DOMAIN router_logits}] :
                    \A t \in DOMAIN router_logits : ri[t] \in topk[t]} :
       \E routing_weights \in {RouterProbabilities(router_logits, routing_indices)} :
       \E r \in {core_forward(moe_in.cfg, moe_in.hidden_states,
                              routing_weights, routing_indices)} :
            /\ moe_route' = [router_logits |-> router_logits,
                             routing_weights |-> routing_weights,
                             routing_indices |-> routing_indices]
            /\ moe_out' = r
            /\ moe_pc' = IF r.status = "ok" THEN "returned" ELSE "raised"
    /\ UNCHANGED <<moe_in, attnVars, sanVars, decVars, modVars>>

\* The layers forward is called on, in training and in evaluation mode:
\* with and without shared expert and recompute_layer, every expert local
\* (expert_parallel_size at its default).
MoeForwardConfigs == {c \in MoeLayerConfigs : c.expert_parallel_size = 1}

InitMoEForward ==
    /\ \E T \in 1..MaxMoETokens, cfg \in MoeForwardConfigs, training \in BOOLEAN :
         \E h \in [1..T -> -1..MaxHidden],
            router \in [0..(cfg.num_experts - 1) -> -1..MaxRouterWeight] :
            moe_in = [hidden_states |-> h, router |-> router, cfg |-> cfg,
                      training |-> training]
    /\ moe_pc = "ready"
    /\ moe_route = MoeIdleRoute
    /\ moe_out = MoeIdleOut
    /\ AttnIdle

\* One call of Qwen2MoELayer.forward.
Qwen2MoELayer_forward ==
    /\ moe_pc = "ready"
    /\ \E router_logits \in {RouterLogits(moe_in.router, moe_in.hidden_states)} :
       \E topk \in {[t \in DOMAIN router_logits |->
                        TopK(router_logits[t], moe_in.cfg.top_k)]} :
       \E routing_indices \in
                {ri \in [DOMAIN router_logits -> UNION {topk[t] : t \in DOMAIN router_logits}] :
                    \A t \in DOMAIN router_logits : ri[t] \in topk[t]} :
       \E routing_weights \in {RouterProbabilities(router_logits, routing_indices)} :
       \E r \in {Qwen2MoELayer_forward_result(moe_in.cfg, moe_in.training,
                        moe_in.hidden_states, routing_weights, routing_indices)} :
            /\ moe_route' = [router_logits |-> router_logits,
                             routing_weights |-> routing_weights,
                             routing_indices |-> routing_indices]
            /\ moe_out' = r
            /\ moe_pc' = IF r.status = "ok" THEN "returned" ELSE "raised"
    /\ UNCHANGED <<moe_in, attnVars, sanVars, decVars, modVars>>

(***************************************************************************)
(* _combine_expert_outputs by itself, on float32 rows: combined_output is  *)
(* torch.zeros(original_shape), a float32 tensor, and every += rounds its  *)
(* sum to the 24 significant bits of float32 (to nearest, ties to even;    *)
(* the exponent range is not modelled).                                    *)
(***************************************************************************)
MantissaBits == 24

\* <<n, d, e>> with n / d * 2^e the positive value given and
\* 2^(MantissaBits-1) <= n / d < 2^MantissaBits
MantissaEnd == Pow2(MantissaBits)
MantissaStart == Pow2(MantissaBits - 1)

RECURSIVE ScaleToMantissa(_, _, _)
ScaleToMantissa(n, d, e) ==
    IF n >= MantissaEnd * d THEN ScaleToMantissa(n, 2 * d, e + 1)
    ELSE IF n < MantissaStart * d THEN ScaleToMantissa(2 * n, d, e - 1)
    ELSE <<n, d, e>>

\* the float32 nearest to the rational x
Float32(x) ==
    IF x[1] = 0 THEN RatInt(0)
    ELSE LET s == ScaleToMantissa(Abs(x[1]), x[2], 0)
             q == s[1] \div s[2]
             rem == s[1] % s[2]
             m == IF 2 * rem > s[2] \/ (2 * rem = s[2] /\ q % 2 = 1) THEN q + 1 ELSE q
             sgn == IF x[1] < 0 THEN -1 ELSE 1
         IN IF s[3] >= 0 THEN Rat(sgn * m * Pow2(s[3]), 1)
            ELSE Rat(sgn * m, Pow2(0 - s[3]))

\* a + b on float32 tensors
FloatAdd(a, b) == Float32(RatAdd(a, b))

\* the row of expert_output that lands on token t
ExpertRow(expert_outputs, routing_indices, expert_idx, t) ==
    LET ts == SortedSeq(ExpertMask(routing_indices, expert_idx))
    IN expert_outputs[expert_idx][IF Len(expert_outputs[expert_idx]) = 1 THEN 1
                                  ELSE CHOOSE r \in 1..Len(ts) : ts[r] = t]

\* Mutant: the rows of an expert replace the combined rows (= for +=).
CombineStep_Overwrite(expert_outputs, routing_indices, expert_idx, acc) ==
    IF Len(expert_outputs[expert_idx]) = 0 THEN acc
    ELSE [output |->
            [t \in DOMAIN acc.output |->
                IF t \in ExpertMask(routing_indices, expert_idx)
                THEN ExpertRow(expert_outputs, routing_indices, expert_idx, t)
                ELSE acc.output[t]],
          added |->
            [t \in DOMAIN acc.added |->
                IF t \in ExpertMask(routing_indices, expert_idx)
                THEN Append(acc.added[t], expert_idx)
                ELSE acc.added[t]]]

\* One iteration of the loop of _combine_expert_outputs for expert_idx:
\* skipped on an empty expert_output, else combined_output[expert_mask] +=
\* expert_output.  acc.added records, per row, the experts added so far.
CombineStep(expert_outputs, routing_indices, expert_idx, acc) ==
    IF Len(expert_outputs[expert_idx]) = 0 THEN acc
    ELSE [output |->
            [t \in DOMAIN acc.output |->
                IF t \in ExpertMask(routing_indices, expert_idx)
                THEN FloatAdd(acc.output[t],
                              ExpertRow(expert_outputs, routing_indices, expert_idx, t))
                ELSE acc.output[t]],
          added |->
            [t \in DOMAIN acc.added |->
                IF t \in ExpertMask(routing_indices, expert_idx)
                THEN Append(acc.added[t], expert_idx)
                ELSE acc.added[t]]]

\* The loop of _combine_expert_outputs visiting the experts in the order
\* order[i], order[i + 1], ...
RECURSIVE CombineInOrder(_, _, _, _, _)
CombineInOrder(expert_outputs, routing_indices, order, i, acc) ==
    IF i > Len(order) THEN acc
    ELSE CHOOSE result \in
            {CombineInOrder(expert_outputs, routing_indices, order, i + 1, next) :
                next \in {CombineStep(expert_outputs, routing_indices, order[i], acc)}} :
            TRUE

\* torch.zeros(original_shape), no row added to yet
CombineZeros(tokens) ==
    [output |-> [t \in 1..tokens |-> RatInt(0)], added |-> [t \in 1..tokens |-> <<>>]]

\* enumerate(expert_outputs): 0, 1, ..., len - 1
EnumerateOrder(expert_outputs) ==
    [i \in 1..Cardinality(DOMAIN expert_outputs) |-> i - 1]

\* the orders the experts of expert_outputs can be visited in
ExpertOrders(expert_outputs) ==
    {order \in [1..Cardinality(DOMAIN expert_outputs) -> DOMAIN expert_outputs] :
        \A i, j \in DOMAIN order : i # j => order[i] # order[j]}

\* the values of the rows the experts return: 1 and 2^24, the least float32
\* whose successor is 2 away
FloatValues == {RatInt(1), RatInt(MantissaEnd)}

\* the routing indices topk can return: per token top_k distinct experts
RoutingIndices(cfg, tokens) ==
    [1..tokens -> {idx \in [1..cfg.top_k -> 0..(cfg.num_experts - 1)] :
                      \A a, b \in 1..cfg.top_k : a # b => idx[a] # idx[b]}]

\* the expert_outputs _core_forward hands over: per local expert one row for
\* each token of its mask, the empty tensor if it has none
ExpertOutputs(cfg, routing_indices) ==
    {eo \in [0..(NumLocalExperts(cfg) - 1) -> UNION {[1..n -> FloatValues] : n \in 0..Len(routing_indices)}] :
        \A e \in DOMAIN eo :
            Len(eo[e]) = Cardinality(ExpertMask(routing_indices, e))}

InitCombine ==
    /\ \E T \in 1..MaxMoETokens, cfg \in MoeConfigs :
        \E routing_indices \in RoutingIndices(cfg, T) :
        \E expert_outputs \in ExpertOutputs(cfg, routing_indices) :
        \E order \in ExpertOrders(expert_outputs) :
            /\ moe_in = [cfg |-> cfg, tokens |-> T, expert_outputs |-> expert_outputs,
                         order |-> order]
            /\ moe_route = [routing_indices |-> routing_indices]
    /\ moe_pc = "ready"
    /\ moe_out = MoeIdleOut
    /\ AttnIdle
    /\ SanIdle
    /\ DecIdle
    /\ ModIdle

\* One call of _combine_expert_outputs, next to the same loop run in the
\* order moe_in.order.
Qwen2MoELayer_combine_expert_outputs ==
    /\ moe_pc = "ready"
    /\ \E in_order \in {CombineInOrder(moe_in.expert_outputs, moe_route.routing_indices,
                                       EnumerateOrder(moe_in.expert_outputs), 1,
                                       CombineZeros(moe_in.tokens))} :
       \E permuted \in {CombineInOrder(moe_in.expert_outputs, moe_route.routing_indices,
                                       moe_in.order, 1, CombineZeros(moe_in.tokens))} :
            moe_out' = [status |-> "ok", output |-> in_order.output,
                        added |-> in_order.added, permuted |-> permuted]
    /\ moe_pc' = "returned"
    /\ UNCHANGED <<moe_in, moe_route, attnVars, sanVars, decVars, modVars>>

(***************************************************************************)
(* Qwen2DecoderLayer.  The layer norms, the attention kernel and the dense *)
(* feed-forward block are taken as functions of their arguments: a hidden  *)
(* state is the term that computes it, over the layer's input.             *)
(***************************************************************************)
TensorPointer == [op |-> "TensorPointer", args |-> <<>>]

Term(op, args) == [op |-> op, args |-> args]

\* the hidden states handed to the layer: batch_size * seq_length rows
HiddenStates(tokens) == Term("hidden_states", << tokens >>)

\* Qwen2DecoderLayer._core_forward; a placeholder has none of the methods
\* the first sub-block calls on its input
DecoderLayer_core_forward(cfg, hidden_states, position_ids) ==
    IF hidden_states = TensorPointer
    THEN [status |-> "AttributeError", hidden_states |-> TensorPointer,
          position_ids |-> <<>>, attention_mask |-> {}, cu_seqlens |-> <<>>]
    ELSE CHOOSE result \in
        {IF output.core.status # "ok"
         THEN [status |-> output.core.status, hidden_states |-> TensorPointer,
               position_ids |-> <<>>, attention_mask |-> {}, cu_seqlens |-> <<>>]
         ELSE [status |-> "ok",
               attention_mask |-> output.attention_mask,
               cu_seqlens |-> output.cu_seqlens,
               hidden_states |->
                  Term("add",
                       << Term("mlp", << Term("post_attention_layernorm",
                                               << after_attn >>) >>),
                          after_attn >>),
               position_ids |-> output.position_ids] :
            output \in {Qwen2Attention_compute(cfg, position_ids)},
            after_attn \in
                {Term("add",
                      << Term("attn", << Term("input_layernorm", << hidden_states >>),
                                         Flatten(MaskedFill(position_ids)) >>),
                         hidden_states >>)}} : TRUE

\* the activations _core_forward leaves behind for the backward pass
DecoderActivations ==
    {"input_layernorm", "attn", "post_attention_layernorm", "mlp"}

\* Qwen2DecoderLayer.forward; _checkpointed_forward is
\* CheckpointFunction.apply(self._core_forward, True, hidden_states,
\* position_ids): the function runs under no_grad on the arguments, its
\* outputs are returned and no activation of the function is retained
Qwen2DecoderLayer_forward_result(cfg, hidden_states, position_ids) ==
    CHOOSE result \in
        {[status |-> core.status,
          hidden_states |-> core.hidden_states,
          position_ids |-> core.position_ids,
          attention_mask |-> core.attention_mask,
          cu_seqlens |-> core.cu_seqlens,
          checkpointed |-> checkpointed,
          retained |-> IF checkpointed \/ core.status # "ok" THEN {}
                       ELSE DecoderActivations] :
            core \in {DecoderLayer_core_forward(cfg, hidden_states, position_ids)},
            checkpointed \in {cfg.recompute_layer /\ hidden_states # TensorPointer}} : TRUE

\* The decoder layers drawn: one attention head of head_dim 1, any registered
\* attention implementation, with and without recompute_layer; the input is a
\* packed batch or, on a pipeline rank that does not hold it, a placeholder.
InitDecoder ==
    /\ \E bs \in BatchShapes, impl \in RegisteredAttention,
          recompute_layer \in BOOLEAN, placeholder \in BOOLEAN :
         \E p \in PositionIds(bs) :
            dec_in = [hidden_states |-> IF placeholder THEN TensorPointer
                                        ELSE HiddenStates(bs[1] * bs[2]),
                      position_ids |-> IF placeholder THEN <<>> ELSE p,
                      cfg |-> [impl |-> impl, tokens |-> bs[1] * bs[2],
                               local_num_heads |-> 1, local_num_kv_heads |-> 1,
                               head_dim |-> 1, window |-> WindowOff,
                               recompute_layer |-> recompute_layer]]
    /\ dec_pc = "ready"
    /\ dec_out = [status |-> "none"]

\* One call of Qwen2DecoderLayer.forward.
Qwen2DecoderLayer_forward ==
    /\ dec_pc = "ready"
    /\ \E r \in {Qwen2DecoderLayer_forward_result(dec_in.cfg, dec_in.hidden_states,
                                                  dec_in.position_ids)} :
          /\ dec_out' = r
          /\ dec_pc' = IF r.status = "ok" THEN "returned" ELSE "raised"
    /\ UNCHANGED <<dec_in, attnVars, moeVars, sanVars, modVars>>

(***************************************************************************)
(* Qwen2Model.forward: the chain of pipeline blocks.  A value handed from  *)
(* block to block carries the position in the chain of the call that       *)
(* produced it (0: an argument of forward).  A 1-d tensor of position ids  *)
(* is written as its single row.                                           *)
(***************************************************************************)
MaxLayers == 2      \* config.num_hidden_layers

Produced(value, by) == [value |-> value, by |-> by]

\* one call of a pipeline block: the keys it was given, each with the
\* producer of the value, and the keys it returned
BlockCall(block, layer_idx, consumed, produced) ==
    [block |-> block, layer_idx |-> layer_idx, consumed |-> consumed,
     produced |-> produced]

\* Mutant: every decoder layer is given the position ids the embedding block
\* returned.
DecoderInputs_EmbeddingPositionIds(output, decoder_states) ==
    [hidden_states |-> decoder_states.hidden_states,
     position_ids |-> output.position_ids]

\* decoder_layer(**decoder_states)
DecoderInputs(output, decoder_states) == decoder_states

\* The models drawn: 0 to MaxLayers decoder layers of one attention head of
\* head_dim 1, called on a packed batch.
InitModel ==
    /\ \E bs \in BatchShapes, impl \in RegisteredAttention, N \in 0..MaxLayers :
         \E p \in PositionIds(bs) :
            mod_in = [call |-> "Qwen2Model.forward",
                      input_ids |-> Term("input_ids", << bs[1], bs[2] >>),
                      position_ids |-> p,
                      num_hidden_layers |-> N,
                      cfg |-> [impl |-> impl, tokens |-> bs[1] * bs[2],
                               local_num_heads |-> 1, local_num_kv_heads |-> 1,
                               head_dim |-> 1, window |-> WindowOff,
                               recompute_layer |-> FALSE]]
    /\ mod_pc = "ready"
    /\ mod_out = [status |-> "none"]
    /\ AttnIdle
    /\ MoeIdle
    /\ SanIdle
    /\ DecIdle

\* self.token_position_embeddings(input_ids=..., position_ids=...) and the
\* dictionary decoder_states built from its output
Model_token_position_embeddings ==
    /\ mod_pc = "ready"
    /\ mod_in.call = "Qwen2Model.forward"
    /\ \E output \in {[input_embeds |->
                          Produced(Term("token_embedding", << mod_in.input_ids >>), 1),
                       position_ids |-> Produced(mod_in.position_ids, 1)]} :
          mod_out' = [status |-> "running",
                      output |-> output,
                      decoder_states |-> [hidden_states |-> output.input_embeds,
                                          position_ids |-> output.position_ids],
                      layer_idx |-> 0,
                      calls |-> << BlockCall("token_position_embeddings", -1,
                                             [input_ids |-> 0, position_ids |-> 0],
                                             {"input_embeds", "position_ids"}) >>]
    /\ mod_pc' = "decoder"
    /\ UNCHANGED <<mod_in, attnVars, moeVars, sanVars, decVars>>

\* One iteration of "for decoder_layer in self.decoder".
Model_decoder_layer ==
    /\ mod_pc = "decoder"
    /\ mod_out.layer_idx < mod_in.num_hidden_layers
    /\ \E given \in {DecoderInputs(mod_out.output, mod_out.decoder_states)} :
       \E r \in {Qwen2DecoderLayer_forward_result(
                    [mod_in.cfg EXCEPT !.window.layer_idx = mod_out.layer_idx],
                    given.hidden_states.value, given.position_ids.value)} :
       \E here \in {Len(mod_out.calls) + 1} :
          /\ mod_out' =
                [mod_out EXCEPT
                    !.status = IF r.status = "ok" THEN "running" ELSE r.status,
                    !.decoder_states =
                        IF r.status = "ok"
                        THEN [hidden_states |-> Produced(r.hidden_states, here),
                              position_ids |-> Produced(<< r.position_ids >>, here)]
                        ELSE @,
                    !.layer_idx = @ + 1,
                    !.calls = Append(@,
                        [block |-> "decoder", layer_idx |-> mod_out.layer_idx,
                         consumed |-> [hidden_states |-> given.hidden_states.by,
                                       position_ids |-> given.position_ids.by],
                         produced |-> IF r.status = "ok"
                                      THEN {"hidden_states", "position_ids"} ELSE {},
                         attention_mask |-> r.attention_mask,
                         cu_seqlens |-> r.cu_seqlens])]
          /\ mod_pc' = IF r.status = "ok" THEN "decoder" ELSE "raised"
    /\ UNCHANGED <<mod_in, attnVars, moeVars, sanVars, decVars>>

\* self.final_layer_norm(input=decoder_states["hidden_states"]), once the
\* loop is over
Model_final_layer_norm ==
    /\ mod_pc = "decoder"
    /\ mod_out.layer_idx >= mod_in.num_hidden_layers
    /\ \E here \in {Len(mod_out.calls) + 1} :
          mod_out' =
            [status |-> "running",
             output |-> mod_out.output,
             decoder_states |-> mod_out.decoder_states,
             layer_idx |-> mod_out.layer_idx,
             hidden_states |->
                Produced(Term("final_layer_norm",
                              << mod_out.decoder_states.hidden_states.value >>), here),
             calls |-> Append(mod_out.calls,
                BlockCall("final_layer_norm", -1,
                          [input |-> mod_out.decoder_states.hidden_states.by],
                          {"hidden_states"}))]
    /\ mod_pc' = "lm_head"
    /\ UNCHANGED <<mod_in, attnVars, moeVars, sanVars, decVars>>

\* self.lm_head(x=hidden_states)["logits"] and the return
Model_lm_head ==
    /\ mod_pc = "lm_head"
    /\ \E here \in {Len(mod_out.calls) + 1} :
          mod_out' =
            [status |-> "ok",
             output |-> mod_out.output,
             decoder_states |-> mod_out.decoder_states,
             layer_idx |-> mod_out.layer_idx,
             hidden_states |-> mod_out.hidden_states,
             sharded_logits |->
                Produced(Term("lm_head", << mod_out.hidden_states.value >>), here),
             calls |-> Append(mod_out.calls,
                BlockCall("lm_head", -1, [x |-> mod_out.hidden_states.by],
                          {"logits"}))]
    /\ mod_pc' = "returned"
    /\ UNCHANGED <<mod_in, attnVars, moeVars, sanVars, decVars>>

(***************************************************************************)
(* Construction: CoreAttention.__init__ (through Qwen2Attention.__init__)  *)
(* followed by forward calls of the module, and init_model_randomly.       *)
(***************************************************************************)
\* values of config._attn_implementation: the keys of ALL_ATTENTION_FUNCTIONS
\* and one that is not registered
AttentionKeys == RegisteredAttention \cup {"unregistered"}

\* classes of config.model.init_method
InitMethods == {"RandomInit", "SpectralMupInit", "ExistingCheckpointInit"}

\* model.named_parameters() as (name, full name) pairs; with tied embeddings
\* the lm_head weight has the full name of the embedding weight
ModelParameters(tie_word_embeddings) ==
    << [name |-> "token_embedding.weight", full_name |-> "token_embedding.weight"],
       [name |-> "decoder.0.weight", full_name |-> "decoder.0.weight"],
       [name |-> "lm_head.weight",
        full_name |-> IF tie_word_embeddings THEN "token_embedding.weight"
                      ELSE "lm_head.weight"] >>

\* CoreAttention.__init__: the key is stored, the registry is not read
CoreAttention_init(config) ==
    [status |-> "ok",
     cfg |-> [impl |-> config.attn_implementation, tokens |-> config.tokens,
              local_num_heads |-> 1, local_num_kv_heads |-> 1, head_dim |-> 1,
              window |-> WindowOff],
     forward_calls |-> 0]

\* the choice of the parametrizator class
ParametrizatorOf(init_method) ==
    IF init_method = "RandomInit" THEN "StandardParametrizator"
    ELSE IF init_method = "SpectralMupInit" THEN "SpectralMupParametrizator"
    ELSE "ValueError"

InitConstruction ==
    /\ \/ \E bs \in BatchShapes, key \in AttentionKeys : \E p \in PositionIds(bs) :
            mod_in = [call |-> "Qwen2Attention",
                      config |-> [attn_implementation |-> key,
                                  tokens |-> bs[1] * bs[2]],
                      position_ids |-> p]
       \/ \E m \in InitMethods, tie \in BOOLEAN :
            mod_in = [call |-> "init_model_randomly", init_method |-> m,
                      named_parameters |-> ModelParameters(tie)]
    /\ mod_pc = "ready"
    /\ mod_out = [status |-> "none"]
    /\ AttnIdle
    /\ MoeIdle
    /\ SanIdle
    /\ DecIdle

\* self.attention = CoreAttention(config, tp_pg, cp_pg, layer_idx)
Qwen2Attention_init ==
    /\ mod_pc = "ready"
    /\ mod_in.call = "Qwen2Attention"
    /\ \E module \in {CoreAttention_init(mod_in.config)} :
          /\ mod_out' = module
          /\ mod_pc' = IF module.status = "ok" THEN "constructed" ELSE "raised"
    /\ UNCHANGED <<mod_in, attnVars, moeVars, sanVars, decVars>>

\* the first forward call of the constructed module
Qwen2Attention_call ==
    /\ mod_pc = "constructed"
    /\ mod_in.call = "Qwen2Attention"
    /\ \E r \in {Qwen2Attention_compute(mod_out.cfg, mod_in.position_ids)} :
          /\ mod_out' = [mod_out EXCEPT !.status = r.core.status,
                                        !.forward_calls = @ + 1]
          /\ mod_pc' = IF r.core.status = "ok" THEN "returned" ELSE "raised"
    /\ UNCHANGED <<mod_in, attnVars, moeVars, sanVars, decVars>>

\* init_model_randomly up to the loop over the parameters
init_model_randomly ==
    /\ mod_pc = "ready"
    /\ mod_in.call = "init_model_randomly"
    /\ \E cls \in {ParametrizatorOf(mod_in.init_method)} :
          /\ mod_out' = [status |-> IF cls = "ValueError" THEN cls ELSE "ok",
                         parametrizator |-> cls,
                         next |-> 1,
                         initialized_parameters |-> {}]
          /\ mod_pc' = IF cls = "ValueError" THEN "raised" ELSE "parametrizing"
    /\ UNCHANGED <<mod_in, attnVars, moeVars, sanVars, decVars>>

\* one iteration of "for param_name, param in model.named_parameters()"
init_model_randomly_parametrize ==
    /\ mod_pc = "parametrizing"
    /\ mod_out.next <= Len(mod_in.named_parameters)
    /\ \E param \in {mod_in.named_parameters[mod_out.next]} :
          mod_out' = [mod_out EXCEPT
                         !.next = @ + 1,
                         !.initialized_parameters = @ \cup {param.full_name}]
    /\ UNCHANGED <<mod_in, mod_pc, attnVars, moeVars, sanVars, decVars>>

\* the closing assert on the set of initialized parameters
init_model_randomly_return ==
    /\ mod_pc = "parametrizing"
    /\ mod_out.next > Len(mod_in.named_parameters)
    /\ \E expected \in {{mod_in.named_parameters[i].full_name :
                            i \in DOMAIN mod_in.named_parameters}} :
          /\ mod_pc' = IF mod_out.initialized_parameters = expected
                       THEN "returned" ELSE "raised"
          /\ mod_out' = [mod_out EXCEPT
                            !.status = IF mod_out.initialized_parameters = expected
                                       THEN "ok" ELSE "AssertionError"]
    /\ UNCHANGED <<mod_in, attnVars, moeVars, sanVars, decVars>>

(***************************************************************************)
(* Sanity checks (src/nanotron/sanity_checks.py).                          *)
(*                                                                         *)
(* The world is two pipeline stages times MaxReplica + 1 replicas.  The    *)
(* ranks of one stage form dp_cp_pg; the token embedding of the first      *)
(* stage and the lm head of the last stage of one replica are one tied     *)
(* parameter, whose group_ranks are the two ranks of that replica.         *)
(* A tensor is one scalar, counted in units of assert_close's absolute     *)
(* tolerance, or NaN, or Inf; a missing tensor is None.                    *)
(***************************************************************************)
None == <<"none", 0>>
NaN == <<"nan", 0>>
Inf == <<"inf", 0>>
Fin(n) == <<"fin", n>>

Atol == 1   \* the default absolute tolerance of torch.testing.assert_close

\* torch.testing.assert_close(actual, expected, atol=atol): TRUE iff it passes.
\* NaN is close to nothing (equal_nan is False), Inf only to Inf; the relative
\* term rtol * |expected| is below one unit for the values of the model.
assert_close(actual, expected, atol) ==
    IF actual = NaN \/ expected = NaN THEN FALSE
    ELSE IF actual = Inf \/ expected = Inf THEN actual = expected
    ELSE Abs(actual[2] - expected[2]) <= atol

DP == MaxReplica + 1
Ranks == 0 .. (2 * DP - 1)
StageOf(rank) == rank \div DP
dp_cp_pg(rank) == {q \in Ranks : StageOf(q) = StageOf(rank)}
TiedGroupRanks(rank) == {q \in Ranks : q % DP = rank % DP}
ProcessGroups == {dp_cp_pg(r) : r \in Ranks} \cup {TiedGroupRanks(r) : r \in Ranks}

\* dist.get_global_rank(group=pg, group_rank=0)
ReferenceRank(pg) == CHOOSE q \in pg : \A p \in pg : q <= p

Parameter(name, is_tied, full_name) ==
    [name |-> name, is_tied |-> is_tied, full_name |-> full_name]

\* unwrapped_model.named_parameters() of a pipeline stage, in module order;
\* full_name is what tied_info.get_full_name_from_module_id_to_prefix returns.
named_parameters(stage) ==
    IF stage = 0
    THEN << Parameter("model.token_embedding.weight", TRUE,
                      "model.token_embedding.weight"),
            Parameter("model.decoder.weight", FALSE, "model.decoder.weight") >>
    ELSE << Parameter("model.final_layer_norm.weight", FALSE,
                      "model.final_layer_norm.weight"),
            Parameter("model.lm_head.weight", TRUE,
                      "model.token_embedding.weight") >>

NamesOf(rank) ==
    {named_parameters(StageOf(rank))[i].name : i \in 1..Len(named_parameters(StageOf(rank)))}

FullNamesOf(rank) ==
    {named_parameters(StageOf(rank))[i].full_name :
        i \in 1..Len(named_parameters(StageOf(rank)))}

\* Python's order of the names, as used by sorted(...).
NameOrder ==
    << "model.decoder.weight", "model.final_layer_norm.weight",
       "model.lm_head.weight", "model.token_embedding.weight" >>

NameIndex(name) == CHOOSE i \in 1..Len(NameOrder) : NameOrder[i] = name

\* sorted(items, key=lambda x: x[0]) where keys[i] is the key of items[i]
SortedByKey(items, keys) ==
    [j \in 1..Len(items) |->
        items[CHOOSE i \in 1..Len(items) :
                Cardinality({k \in 1..Len(items) :
                    NameIndex(keys[k]) < NameIndex(keys[i])}) = j - 1]]

\* Mutant: the parameters in module order, "sorted" left out.
SortedNamedParameters_ModuleOrder(rank) == named_parameters(StageOf(rank))

SortedNamedParameters(rank) ==
    LET named == named_parameters(StageOf(rank))
    IN SortedByKey(named, [i \in 1..Len(named) |-> named[i].name])

\* the tied parameters of a pipeline stage
TiedParametersOf(stage) ==
    {named_parameters(stage)[i] : i \in {j \in 1..Len(named_parameters(stage)) :
                                            named_parameters(stage)[j].is_tied}}

\* sorted(get_tied_id_to_param(...).items(), key=lambda x: x[0])
tied_params_list(rank) ==
    LET named == named_parameters(StageOf(rank))
        IsTied(p) == p.is_tied
        tied == SelectSeq(named, IsTied)
    IN SortedByKey(tied, [i \in 1..Len(tied) |-> tied[i].full_name])

RECURSIVE ConcatFrom(_, _, _)
ConcatFrom(seqs, i, n) ==
    IF i > n THEN <<>> ELSE seqs[i] \o ConcatFrom(seqs, i + 1, n)

ConcatAll(seqs) == ConcatFrom(seqs, 1, Len(seqs))

(***************************************************************************)
(* What a statement of a checkpoint does: join a broadcast, raise, log, or *)
(* call the model's hook.  A checkpoint is the sequence of these, in the   *)
(* order of its statements; conditions on the rank's own tensors are       *)
(* evaluated where the statement stands.                                   *)
(***************************************************************************)
Effect(op, ref, tensor, pg, type, name, msg) ==
    [op |-> op, ref |-> ref, tensor |-> tensor, pg |-> pg, type |-> type,
     name |-> name, msg |-> msg]

\* which tensor of the rank an argument is: its field and its key
NoRef == << "", "" >>
ParamRef(name) == << "param", name >>
StateRef(name, key) == << key, name >>

\* assert_tensor_synced_across_pg(tensor, pg, msg): the call up to its
\* broadcast; ref says which tensor of the rank was passed
Synced(ref, tensor, pg, name, msg) ==
    << Effect("broadcast", ref, tensor, pg, "AssertionError", name, msg) >>

Raise(type, name, msg) == << Effect("raise", NoRef, None, {}, type, name, msg) >>

LogError_AsException(name, msg) ==
    << Effect("raise", NoRef, None, {}, "ValueError", name, msg) >>

LogError(name, msg) == << Effect("log", NoRef, None, {}, "ERROR", name, msg) >>

Hook(name) == << Effect("hook", NoRef, None, {}, "", name, "") >>

AssertZero_DefaultTolerance(tensor, msg) ==
    IF assert_close(tensor, Fin(0), Atol) THEN <<>>
    ELSE << Effect("raise", NoRef, None, {}, "AssertionError", "", msg) >>

\* torch.testing.assert_close(tensor, torch.zeros_like(tensor), atol=0, rtol=0)
AssertZero(tensor, msg) ==
    IF assert_close(tensor, Fin(0), 0) THEN <<>> ELSE Raise("AssertionError", "", msg)

SanityChecksEnabled_FlagUnread(config) == TRUE

\* if not config.general.ignore_sanity_checks
SanityChecksEnabled(config) == ~config.ignore_sanity_checks

(***************************************************************************)
(* san_world holds the tensors and flags of the ranks sparsely: the cells  *)
(* that differ from the synchronized state of a training step, each with   *)
(* the ranks that hold the differing value.                                *)
(***************************************************************************)
Deviation(ranks, field, key, value) ==
    [ranks |-> ranks, field |-> field, key |-> key, value |-> value]

\* param.grad where the trainer has just cleared it or keeps gradients in
\* the accumulator; a finite gradient after the backward pass otherwise
BaselineGrad(checkpoint, accumulator) ==
    IF accumulator \/ checkpoint \in {"before_tbi", "after_optim_step"}
    THEN None ELSE Fin(0)

Tensor(rank, field, key, base) ==
    IF \E d \in san_world : rank \in d.ranks /\ d.field = field /\ d.key = key
    THEN (CHOOSE d \in san_world :
            rank \in d.ranks /\ d.field = field /\ d.key = key).value
    ELSE base

ParamData(rank, name) == Tensor(rank, "param", name, Fin(0))

ParamGrad(rank, name) ==
    Tensor(rank, "grad", name,
           BaselineGrad(san_cfg.checkpoint, san_cfg.grad_accumulator))

Fp32GradBuffer(rank, name) == Tensor(rank, "fp32_grad", name, Fin(0))

OptimState(rank, name, key) == Tensor(rank, key, name, Fin(0))

\* group["lr"] of lr_scheduler.optimizer.param_groups
ParamGroupLrs(rank) ==
    << Tensor(rank, "lr", "group0", Fin(0)), Tensor(rank, "lr", "group1", Fin(0)) >>

\* lr_scheduler.get_last_lr()
LastLrs(rank) == << Fin(0), Fin(0) >>

\* the parameter groups an lr loop body runs for: the body ends in break
LrGroupsChecked(param_groups) ==
    IF Len(param_groups) = 0 THEN {} ELSE {1}

\* grad_accumulator.get_grad_buffer(name) if there is an accumulator, else
\* param.grad
GradOf(rank, param, name) ==
    IF san_cfg.grad_accumulator
    THEN Fp32GradBuffer(rank, name)
    ELSE ParamGrad(rank, param.name)

RequiresGrad(rank, param) == Tensor(rank, "requires_grad", param.name, Fin(1)) = Fin(1)

\* the name a gradient is looked up and reported under
GradName(param) == IF param.is_tied THEN param.full_name ELSE param.name

\* which tensor GradOf(rank, param, name) is
GradRef(param, name) ==
    IF san_cfg.grad_accumulator THEN << "fp32_grad", name >>
    ELSE << "grad", param.name >>

before_tbi_sanity_checks(rank) ==
    CHOOSE result \in
        {IF ~SanityChecksEnabled(san_cfg) THEN <<>>
           ELSE ConcatAll(<<
                ConcatAll([i \in 1..Len(sorted) |->
                    Synced(ParamRef(sorted[i].name), ParamData(rank, sorted[i].name),
                           dp_cp_pg(rank), sorted[i].name,
                           "are not synchronized across DP_CP")]),
                ConcatAll([i \in 1..Len(tied) |->
                    Synced(ParamRef(tied[i].name), ParamData(rank, tied[i].name),
                           TiedGroupRanks(rank),
                           tied[i].full_name,
                           "[Before train] Tied weights are not synchronized")]),
                ConcatAll([i \in 1..Len(named) |->
                    IF ParamGrad(rank, named[i].name) # None
                    THEN AssertZero(ParamGrad(rank, named[i].name),
                            "Model half precision grads must be zeroed or None in first accumulation step.")
                    ELSE <<>>]),
                IF san_cfg.grad_accumulator
                THEN ConcatAll([i \in 1..Len(buffers) |->
                        AssertZero(Fp32GradBuffer(rank, GradName(buffers[i])),
                            "Grad accumulator buffers must be zeroed in first accumulation step.")])
                ELSE <<>>,
                ConcatAll([i \in 1..Len(ParamGroupLrs(rank)) |->
                    IF i \in LrGroupsChecked(ParamGroupLrs(rank))
                       /\ ParamGroupLrs(rank)[i] # LastLrs(rank)[i]
                    THEN Raise("AssertionError", "",
                               "Optimizer and LR scheduler are not in sync")
                    ELSE <<>>]),
                Hook("before_tbi_sanity_checks") >>) :
            named \in {named_parameters(StageOf(rank))},
            sorted \in {SortedNamedParameters(rank)},
            tied \in {tied_params_list(rank)},
            buffers \in {SelectSeq(named_parameters(StageOf(rank)), LAMBDA p : RequiresGrad(rank, p))}} : TRUE

\* torch.isnan(grad).any() or torch.isinf(grad).any(), then the raise
NanInfCheck(grad, name) ==
    IF grad = None
    THEN Raise("TypeError", "", "isnan(): argument 'input' must be Tensor, not NoneType")
    ELSE IF grad = NaN \/ grad = Inf
    THEN Raise("ValueError", name, "Gradient is nan or inf for")
    ELSE <<>>

MissingGradientLog(grad, name) ==
    IF grad = None THEN LogError(name, "is missing gradient") ELSE <<>>

after_tbi_sanity_checks(rank) ==
    CHOOSE result \in
        {IF ~SanityChecksEnabled(san_cfg) THEN <<>>
           ELSE ConcatAll(<<
                ConcatAll([i \in 1..Len(named) |->
                    IF ~RequiresGrad(rank, named[i]) THEN <<>>
                    ELSE LET name == GradName(named[i])
                             grad == GradOf(rank, named[i], name)
                         IN NanInfCheck(grad, name) \o MissingGradientLog(grad, name)]),
                Hook("after_tbi_sanity_checks") >>) :
            named \in {named_parameters(StageOf(rank))}} : TRUE

AssertGradNotNone_Unchecked(grad, name) == <<>>

\* assert grad is not None, f"Grad is None for {name}"
AssertGradNotNone(grad, name) ==
    IF grad = None THEN Raise("AssertionError", name, "Grad is None for") ELSE <<>>

\* for name, tensor in optim_state.items(), in the order the optimizer stores
StateKeys == << "step", "exp_avg", "exp_avg_sq" >>

check_optim_state_in_sync_StepCompared(rank, pg) ==
    CHOOSE result \in
        {ConcatAll([i \in 1..Len(named) |->
                ConcatAll([k \in 1..Len(StateKeys) |->
                    Synced(StateRef(named[i].name, StateKeys[k]),
                           OptimState(rank, named[i].name, StateKeys[k]),
                           pg, StateKeys[k], "are not synced across DP")])]) :
            named \in {named_parameters(StageOf(rank))}} : TRUE

check_optim_state_in_sync(rank, pg) ==
    CHOOSE result \in
        {ConcatAll([i \in 1..Len(named) |->
                ConcatAll([k \in 1..Len(StateKeys) |->
                    IF StateKeys[k] = "step" THEN <<>>
                    ELSE Synced(StateRef(named[i].name, StateKeys[k]),
                                OptimState(rank, named[i].name, StateKeys[k]),
                                pg, StateKeys[k], "are not synced across DP")])]) :
            named \in {named_parameters(StageOf(rank))}} : TRUE

before_optim_step_sanity_checks(rank) ==
    CHOOSE result \in
        {IF ~SanityChecksEnabled(san_cfg) THEN <<>>
           ELSE ConcatAll(<<
                ConcatAll([i \in 1..Len(tied) |->
                    IF ~RequiresGrad(rank, tied[i]) THEN <<>>
                    ELSE LET name == tied[i].full_name
                             grad == GradOf(rank, tied[i], name)
                         IN AssertGradNotNone(grad, name)
                            \o Synced(GradRef(tied[i], name), grad,
                                      TiedGroupRanks(rank), name,
                                 "[Before optimizer step] Tied weights grads are not synchronized")]),
                ConcatAll([i \in 1..Len(sorted) |->
                    IF ~RequiresGrad(rank, sorted[i]) THEN <<>>
                    ELSE LET name == GradName(sorted[i])
                             grad == GradOf(rank, sorted[i], name)
                         IN AssertGradNotNone(grad, name)
                            \o Synced(GradRef(sorted[i], name), grad,
                                      dp_cp_pg(rank), name,
                                 "[Before optimizer step] weights grads are not synchronized across DP_CP")]),
                ConcatAll([i \in 1..Len(sorted) |->
                    Synced(ParamRef(sorted[i].name), ParamData(rank, sorted[i].name),
                           dp_cp_pg(rank), sorted[i].name,
                           "are not synchronized across DP_CP")]),
                ConcatAll([i \in 1..Len(tied) |->
                    Synced(ParamRef(tied[i].name), ParamData(rank, tied[i].name),
                           TiedGroupRanks(rank),
                           tied[i].full_name,
                           "[Before optimizer step] Tied weights are not synchronized")]),
                check_optim_state_in_sync(rank, dp_cp_pg(rank)),
                Hook("before_optim_step_sanity_checks") >>) :
            sorted \in {SortedNamedParameters(rank)},
            tied \in {tied_params_list(rank)}} : TRUE

after_optim_step_sanity_checks(rank) ==
    CHOOSE result \in
        {IF ~SanityChecksEnabled(san_cfg) THEN <<>>
           ELSE ConcatAll(<<
                ConcatAll([i \in 1..Len(named) |->
                    IF ~RequiresGrad(rank, named[i]) THEN <<>>
                    ELSE IF ParamGrad(rank, named[i].name) # None
                    THEN LogError(named[i].name,
                            "still has gradient despite having ran the optimizer")
                    ELSE <<>>]),
                Hook("after_optim_step_sanity_checks") >>) :
            named \in {named_parameters(StageOf(rank))}} : TRUE

Checkpoints ==
    {"before_tbi", "after_tbi", "before_optim_step", "after_optim_step"}

\* one call of assert_tensor_synced_across_pg on its own: every rank passes
\* its copy of the first parameter of its stage and its dp_cp_pg
SyncedParameter(rank) == named_parameters(StageOf(rank))[1].name

SyncedCall(rank) ==
    Synced(ParamRef(SyncedParameter(rank)),
           ParamData(rank, SyncedParameter(rank)), dp_cp_pg(rank),
           SyncedParameter(rank), "are not synchronized across DP_CP")

\* the checkpoint the trainer has every rank call
Checkpoint(rank) ==
    CASE san_cfg.checkpoint = "assert_tensor_synced_across_pg" -> SyncedCall(rank)
      [] san_cfg.checkpoint = "before_tbi" -> before_tbi_sanity_checks(rank)
      [] san_cfg.checkpoint = "after_tbi" -> after_tbi_sanity_checks(rank)
      [] san_cfg.checkpoint = "before_optim_step" ->
            before_optim_step_sanity_checks(rank)
      [] san_cfg.checkpoint = "after_optim_step" ->
            after_optim_step_sanity_checks(rank)

NoException == [type |-> "none", name |-> "", msg |-> ""]

NotStarted ==
    [pc |-> "ready", pos |-> 0, exc |-> NoException, logs |-> <<>>,
     hooks |-> <<>>, broadcasts |-> 0, issued |-> <<>>, pg |-> {},
     ref |-> NoRef, tensor |-> None]

\* Run a rank from statement pos until it blocks in a broadcast, raises or
\* returns.
RECURSIVE RunToBlock(_, _, _)
RunToBlock(effects, pos, p) ==
    IF pos > Len(effects) THEN [p EXCEPT !.pc = "returned", !.pos = pos]
    ELSE LET e == effects[pos]
         IN CASE e.op = "broadcast" ->
                    [p EXCEPT !.pc = "waiting", !.pos = pos, !.broadcasts = @ + 1,
                              !.issued = Append(@, [pg |-> e.pg, name |-> e.name,
                                                    msg |-> e.msg]),
                              !.pg = e.pg, !.ref = e.ref, !.tensor = e.tensor]
              [] e.op = "raise" ->
                    [p EXCEPT !.pc = "raised", !.pos = pos,
                              !.exc = [type |-> e.type, name |-> e.name,
                                       msg |-> e.msg]]
              [] e.op = "log" ->
                    RunToBlock(effects, pos + 1,
                        [p EXCEPT !.logs = Append(@, [level |-> e.type,
                                                      name |-> e.name,
                                                      msg |-> e.msg])])
              [] e.op = "hook" ->
                    RunToBlock(effects, pos + 1,
                        [p EXCEPT !.hooks = Append(@, e.name)])

ReferenceTensor_InPlace(rank, pg) == "tensor"

\* reference_tensor before the broadcast: the rank's own tensor on the
\* reference rank, torch.empty_like(tensor), a buffer of its own, elsewhere
ReferenceTensor(rank, pg) ==
    IF rank = ReferenceRank(pg) THEN "tensor" ELSE "empty_like"

\* The rank is inside dist.broadcast on process group pg.
InBroadcast(rank, pg) ==
    /\ san_proc[rank].pc = "waiting"
    /\ san_proc[rank].pg = pg

\* torch.testing.assert_close(tensor, reference_tensor, msg=msg) at statement
\* p.pos of effects, and what follows it
AssertSynced(effects, p, reference_tensor) ==
    IF assert_close(effects[p.pos].tensor, reference_tensor, Atol)
    THEN RunToBlock(effects, p.pos + 1,
                    [p EXCEPT !.pg = {}, !.ref = NoRef, !.tensor = None])
    ELSE [p EXCEPT !.pc = "raised", !.pg = {}, !.ref = NoRef, !.tensor = None,
                   !.exc = [type |-> effects[p.pos].type,
                            name |-> effects[p.pos].name,
                            msg |-> effects[p.pos].msg]]

assert_tensor_synced_across_pg_OwnTensorAsReference(rank, pg) ==
    CHOOSE result \in
        {AssertSynced(effects, san_proc[rank], san_proc[rank].tensor) :
            effects \in {Checkpoint(rank)}} : TRUE

\* assert_tensor_synced_across_pg from the completion of its broadcast on:
\* reference_tensor is the rank's own tensor on the reference rank and the
\* received one elsewhere; assert_close raises or the checkpoint goes on.
assert_tensor_synced_across_pg(rank, pg) ==
    CHOOSE result \in
        {AssertSynced(effects, san_proc[rank],
                      IF rank = ReferenceRank(pg) THEN san_proc[rank].tensor
                      ELSE san_proc[ReferenceRank(pg)].tensor) :
            effects \in {Checkpoint(rank)}} : TRUE

\* dist.broadcast(reference_tensor, src, group=pg) writes the tensor of src
\* into reference_tensor on every rank of pg: what the ranks hold afterwards.
\* A rank whose reference_tensor is one of its own tensors has that tensor
\* overwritten.
BroadcastWrites(world, pg) ==
    LET value == san_proc[ReferenceRank(pg)].tensor
        written == {q \in pg : /\ ReferenceTensor(q, pg) = "tensor"
                               /\ san_proc[q].tensor # value}
        Kept(d) == {q \in d.ranks :
                      ~(q \in written /\ san_proc[q].ref = << d.field, d.key >>)}
    IN {Deviation(Kept(d), d.field, d.key, d.value) :
            d \in {c \in world : Kept(c) # {}}}
       \cup {Deviation({q}, san_proc[q].ref[1], san_proc[q].ref[2], value) :
                q \in written}

(***************************************************************************)
(* The states a checkpoint is entered in: the synchronized state of a      *)
(* training step at that checkpoint, in which one rank, or every rank of   *)
(* one pipeline stage, holds something else in at most MaxDeviations       *)
(* tensors or flags.                                                       *)
(***************************************************************************)
Scopes == {{r} : r \in Ranks} \cup {dp_cp_pg(r) : r \in Ranks}

Cells(scope, field, values) ==
    {Deviation(scope, field, k, v) :
        k \in NamesOf(ReferenceRank(scope)), v \in values}

BufferCells(scope, values) ==
    {Deviation(scope, "fp32_grad", k, v) :
        k \in FullNamesOf(ReferenceRank(scope)), v \in values}

LrCells(scope) ==
    {Deviation(scope, "lr", k, Fin(1)) : k \in {"group0", "group1"}}

Catalog(checkpoint, accumulator, scope) ==
    CASE checkpoint = "before_tbi" ->
            Cells(scope, "param", {Fin(1), Fin(2)})
            \cup Cells(scope, "grad", {Fin(0), Fin(1)})
            \cup (IF accumulator THEN BufferCells(scope, {Fin(1)}) ELSE {})
            \cup LrCells(scope)
      [] checkpoint = "after_tbi" ->
            (IF accumulator THEN BufferCells(scope, {NaN, Inf})
             ELSE Cells(scope, "grad", {None, NaN, Inf}))
            \cup Cells(scope, "requires_grad", {Fin(0)})
      [] checkpoint = "before_optim_step" ->
            (IF accumulator THEN BufferCells(scope, {Fin(1), Fin(2)})
             ELSE Cells(scope, "grad", {None, Fin(1), Fin(2)}))
            \cup Cells(scope, "param", {Fin(2)})
            \cup Cells(scope, "exp_avg", {Fin(2)})
            \cup Cells(scope, "exp_avg_sq", {Fin(2)})
            \cup Cells(scope, "step", {Fin(2)})
            \cup Cells(scope, "requires_grad", {Fin(0)})
      [] checkpoint = "after_optim_step" ->
            Cells(scope, "grad", {Fin(0)}) \cup Cells(scope, "requires_grad", {Fin(0)})

RECURSIVE DeviationSets(_, _)
DeviationSets(catalog, n) ==
    IF n = 0 THEN {{}}
    ELSE LET smaller == DeviationSets(catalog, n - 1)
         IN smaller \cup {D \cup {d} : D \in smaller, d \in catalog}

\* no tensor is given two values
WellFormed(D) ==
    \A d1, d2 \in D : (d1.field = d2.field /\ d1.key = d2.key) => d1 = d2

InitCheckpoint(checkpoint) ==
    /\ \E ignore \in BOOLEAN, accumulator \in BOOLEAN :
        /\ san_cfg = [checkpoint |-> checkpoint, ignore_sanity_checks |-> ignore,
                      grad_accumulator |-> accumulator]
        /\ \E scope \in Scopes :
             \E D \in DeviationSets(Catalog(checkpoint, accumulator, scope),
                                    MaxDeviations) :
                /\ WellFormed(D)
                /\ san_world = D
    /\ san_proc = [r \in Ranks |-> NotStarted]
    /\ AttnIdle
    /\ MoeIdle
    /\ DecIdle
    /\ ModIdle

InitSanity == \E checkpoint \in Checkpoints : InitCheckpoint(checkpoint)

\* what a tensor handed to assert_tensor_synced_across_pg may hold
TensorValues == {Fin(0), Fin(1), Fin(2), NaN, Inf}

\* a call of assert_tensor_synced_across_pg on its own, every rank holding
\* any of the tensor values
InitSynced ==
    /\ san_cfg = [checkpoint |-> "assert_tensor_synced_across_pg",
                  ignore_sanity_checks |-> FALSE, grad_accumulator |-> FALSE]
    /\ \E held \in [Ranks -> TensorValues] :
          san_world = {Deviation({r}, "param", SyncedParameter(r), held[r]) :
                          r \in {q \in Ranks : held[q] # Fin(0)}}
    /\ san_proc = [r \in Ranks |-> NotStarted]
    /\ AttnIdle
    /\ MoeIdle
    /\ DecIdle
    /\ ModIdle

(***************************************************************************)
(* Actions: a rank calls the checkpoint and runs until it blocks in a      *)
(* broadcast, raises or returns; a broadcast completes once every rank of  *)
(* its group is inside it, and each of them runs on to its next broadcast. *)
(***************************************************************************)
Call(rank, checkpoint) ==
    /\ san_cfg.checkpoint = checkpoint
    /\ san_proc[rank].pc = "ready"
    /\ \E effects \in {Checkpoint(rank)} :
          san_proc' = [san_proc EXCEPT ![rank] = RunToBlock(effects, 1, @)]
    /\ UNCHANGED <<san_cfg, san_world, attnVars, moeVars, decVars, modVars>>

CallBeforeTbi == \E rank \in Ranks : Call(rank, "before_tbi")

CallAfterTbi == \E rank \in Ranks : Call(rank, "after_tbi")

CallBeforeOptimStep == \E rank \in Ranks : Call(rank, "before_optim_step")

CallAfterOptimStep == \E rank \in Ranks : Call(rank, "after_optim_step")

CallSynced == \E rank \in Ranks : Call(rank, "assert_tensor_synced_across_pg")

BroadcastReady(pg) == \A q \in pg : InBroadcast(q, pg)

Broadcast ==
    \E pg \in ProcessGroups :
        /\ BroadcastReady(pg)
        /\ san_proc' = [q \in Ranks |->
                IF q \in pg THEN assert_tensor_synced_across_pg(q, pg)
                ELSE san_proc[q]]
        /\ san_world' = BroadcastWrites(san_world, pg)
        /\ UNCHANGED <<san_cfg, attnVars, moeVars, decVars, modVars>>

NextSanity ==
    \/ CallBeforeTbi
    \/ CallAfterTbi
    \/ CallBeforeOptimStep
    \/ CallAfterOptimStep
    \/ Broadcast

\* no rank can take a step any more
Quiescent ==
    /\ \A r \in Ranks : san_proc[r].pc # "ready"
    /\ \A pg \in ProcessGroups : ~BroadcastReady(pg)

(***************************************************************************)
(* sanity_check_dataloader.  Every rank of the world calls it; the         *)
(* dataloader is its number of batches, the interval an integer or None.   *)
(***************************************************************************)
MaxInterval == 2    \* sanity_check_dataloader_interval is None or 0 .. MaxInterval
MaxBatches == 20    \* batches the dataloader yields
MaxWorld == 2       \* ranks of the world

NUM_BATCHES == 10

NoInterval == [given |-> FALSE, value |-> 0]
Interval(n) == [given |-> TRUE, value |-> n]

WorldRanks == 0..(mod_in.world_size - 1)

\* a rank before its call
DataloaderNotStarted ==
    [i |-> 0, check_step |-> -1, fetched |-> 0, inspected |-> <<>>,
     touched |-> {}, exc |-> "none"]

InitDataloader ==
    /\ \E interval \in {NoInterval} \cup {Interval(n) : n \in 0..MaxInterval},
          batches \in 0..MaxBatches, world_size \in 1..MaxWorld :
          /\ mod_in = [call |-> "sanity_check_dataloader", interval |-> interval,
                       batches |-> batches, world_size |-> world_size]
          /\ mod_pc = [r \in 0..(world_size - 1) |-> "ready"]
          /\ mod_out = [r \in 0..(world_size - 1) |-> DataloaderNotStarted]
    /\ AttnIdle
    /\ MoeIdle
    /\ SanIdle
    /\ DecIdle

\* The call up to the loop: the test of the interval, the tokenizer, and on
\* rank 0 the opening of sanity_check.txt.
sanity_check_dataloader(rank) ==
    /\ mod_pc[rank] = "ready"
    /\ IF ~mod_in.interval.given
       THEN /\ mod_pc' = [mod_pc EXCEPT ![rank] = "returned"]
            /\ UNCHANGED mod_out
       ELSE IF rank = 0
       THEN /\ mod_pc' = [mod_pc EXCEPT ![rank] = "loop"]
            /\ mod_out' = [mod_out EXCEPT
                              ![rank].touched = @ \cup {"tokenizer", "file"}]
       ELSE /\ mod_pc' = [mod_pc EXCEPT ![rank] = "barrier"]
            /\ mod_out' = [mod_out EXCEPT ![rank].touched = @ \cup {"tokenizer"}]
    /\ UNCHANGED <<mod_in, attnVars, moeVars, sanVars, decVars>>

\* One iteration of "for i, batch in enumerate(dataloader)" on rank 0, or
\* the end of the loop, and the raise that follows the loop.
sanity_check_dataloader_batch ==
    /\ mod_pc[0] = "loop"
    /\ \E p \in {mod_out[0]}, interval \in {mod_in.interval.value} :
          IF p.i >= mod_in.batches
          THEN \* the dataloader is exhausted
               /\ mod_out' = [mod_out EXCEPT ![0].touched = @ \cup {"dataloader"},
                                             ![0].exc = "AssertionError"]
               /\ mod_pc' = [mod_pc EXCEPT ![0] = "raised"]
          ELSE IF interval = 0
          THEN \* i % 0
               /\ mod_out' = [mod_out EXCEPT ![0].touched = @ \cup {"dataloader"},
                                             ![0].fetched = @ + 1,
                                             ![0].check_step = @ + 1,
                                             ![0].exc = "ZeroDivisionError"]
               /\ mod_pc' = [mod_pc EXCEPT ![0] = "raised"]
          ELSE \E inspect \in {p.i % interval = 0} :
               \E break \in {inspect /\ p.i \div interval = NUM_BATCHES - 1} :
               /\ mod_out' = [mod_out EXCEPT
                    ![0].touched = @ \cup {"dataloader"}
                                     \cup (IF inspect THEN {"file", "tokenizer"} ELSE {}),
                    ![0].fetched = @ + 1,
                    ![0].check_step = @ + 1,
                    ![0].inspected = IF inspect THEN Append(@, p.i) ELSE @,
                    ![0].i = IF break THEN @ ELSE @ + 1,
                    ![0].exc = IF break THEN "AssertionError" ELSE @]
               /\ mod_pc' = [mod_pc EXCEPT ![0] = IF break THEN "raised" ELSE @]
    /\ UNCHANGED <<mod_in, attnVars, moeVars, sanVars, decVars>>

\* dist.barrier(): the call returns on every rank once all the ranks of the
\* world have made it.
sanity_check_dataloader_barrier(rank) ==
    /\ mod_pc[rank] = "barrier"
    /\ mod_out' = [mod_out EXCEPT ![rank].touched = @ \cup {"barrier"}]
    /\ mod_pc' = IF \A q \in WorldRanks \ {rank} : mod_pc[q] = "in_barrier"
                 THEN [q \in WorldRanks |-> "returned"]
                 ELSE [mod_pc EXCEPT ![rank] = "in_barrier"]
    /\ UNCHANGED <<mod_in, attnVars, moeVars, sanVars, decVars>>

CallDataloader == \E rank \in WorldRanks : sanity_check_dataloader(rank)

BarrierDataloader == \E rank \in WorldRanks : sanity_check_dataloader_barrier(rank)

(***************************************************************************)
(* Loss.forward and masked_mean.  The per-token losses that                *)
(* sharded_cross_entropy returns are an input: whole units, NaN or Inf     *)
(* (a loss is never negative); label_mask holds 0 or 1 per token.         *)
(***************************************************************************)
MaxLossTokens == 3

LossValues == {Fin(0), Fin(1), Fin(2), NaN, Inf}

\* loss * label_mask, element by element: nan * 0 and inf * 0 are nan
MaskedLoss(loss, label_mask) ==
    [t \in DOMAIN loss |->
        IF loss[t] = NaN THEN NaN
        ELSE IF loss[t] = Inf THEN (IF label_mask[t] = 0 THEN NaN ELSE Inf)
        ELSE Fin(loss[t][2] * label_mask[t])]

RECURSIVE SumUnits(_)
SumUnits(xs) == IF xs = <<>> THEN 0 ELSE Head(xs)[2] + SumUnits(Tail(xs))

\* tensor.sum(dtype=dtype) of losses
LossSum(xs) ==
    IF \E t \in DOMAIN xs : xs[t] = NaN THEN NaN
    ELSE IF \E t \in DOMAIN xs : xs[t] = Inf THEN Inf
    ELSE Fin(SumUnits(xs))

RECURSIVE MaskSum(_)
MaskSum(label_mask) ==
    IF label_mask = <<>> THEN 0 ELSE Head(label_mask) + MaskSum(Tail(label_mask))

\* total / count on float tensors: x / 0 is inf, 0 / 0 is nan, no exception
LossDiv(total, count) ==
    IF total = NaN THEN NaN
    ELSE IF total = Inf THEN Inf
    ELSE IF count = 0 THEN (IF total[2] = 0 THEN NaN ELSE Inf)
    ELSE Fin(Rat(total[2], count))

\* (loss * label_mask).sum(dtype=dtype) / label_mask.sum()
masked_mean(loss, label_mask) ==
    LossDiv(LossSum(MaskedLoss(loss, label_mask)), MaskSum(label_mask))

\* Loss.forward, given the per-token losses of sharded_cross_entropy
Loss_forward_result(loss, label_mask) ==
    [status |-> "ok", loss |-> masked_mean(loss, label_mask)]

\* A batch of per-token losses, its mask, and the same batch with other
\* losses at some tokens of mask 0.
InitLoss ==
    /\ \E T \in 1..MaxLossTokens :
        \E loss \in [1..T -> LossValues], label_mask \in [1..T -> 0..1] :
        \E other \in {o \in [1..T -> LossValues] :
                        \A t \in 1..T : label_mask[t] = 1 => o[t] = loss[t]} :
            mod_in = [call |-> "Loss.forward", loss |-> loss,
                      label_mask |-> label_mask, other |-> other]
    /\ mod_pc = "ready"
    /\ mod_out = [status |-> "none"]
    /\ AttnIdle
    /\ MoeIdle
    /\ SanIdle
    /\ DecIdle

\* One call of Loss.forward on mod_in.loss, next to one on mod_in.other.
Loss_forward ==
    /\ mod_pc = "ready"
    /\ mod_in.call = "Loss.forward"
    /\ \E r \in {Loss_forward_result(mod_in.loss, mod_in.label_mask)} :
       \E o \in {Loss_forward_result(mod_in.other, mod_in.label_mask)} :
            mod_out' = [status |-> r.status, loss |-> r.loss, other_loss |-> o.loss]
    /\ mod_pc' = "returned"
    /\ UNCHANGED <<mod_in, attnVars, moeVars, sanVars, decVars>>

(***************************************************************************)
(* Specifications.                                                         *)
(***************************************************************************)
NextAttn == Qwen2Attention_forward

InitAttention ==
    /\ InitAttn
    /\ MoeIdle
    /\ SanIdle
    /\ DecIdle
    /\ ModIdle

SpecAttn == InitAttention /\ [][NextAttn]_vars

NextMoE == Qwen2MoELayer_core_forward

InitExperts ==
    /\ InitMoE
    /\ SanIdle
    /\ DecIdle
    /\ ModIdle

SpecMoE == InitExperts /\ [][NextMoE]_vars

Spec == InitSanity /\ [][NextSanity]_vars

NextBeforeTbi == CallBeforeTbi \/ Broadcast

SpecBeforeTbi == InitCheckpoint("before_tbi") /\ [][NextBeforeTbi]_vars

\* The two checkpoints that broadcast, entered with every data-parallel
\* group holding the same tensors and flags on all its ranks.  Every rank is
\* a running process that the trainer has call the checkpoint, and a
\* collective completes once every rank of its group has joined it.
InitCollective ==
    /\ InitCheckpoint("before_tbi") \/ InitCheckpoint("before_optim_step")
    /\ Cardinality(san_world) <= 1
    /\ \A d \in san_world :
          /\ \A r \in d.ranks : dp_cp_pg(r) \subseteq d.ranks
          /\ \A param \in TiedParametersOf(0) \cup TiedParametersOf(1) :
                d.key \notin {param.name, param.full_name}

NextCollective == CallBeforeTbi \/ CallBeforeOptimStep \/ Broadcast

SpecCollective ==
    /\ InitCollective
    /\ [][NextCollective]_vars
    /\ WF_vars(NextCollective)

NextAfterTbi == CallAfterTbi

SpecAfterTbi == InitCheckpoint("after_tbi") /\ [][NextAfterTbi]_vars

NextLayers == Qwen2MoELayer_forward \/ Qwen2DecoderLayer_forward

\* a MoE layer or a decoder layer is about to be called
InitLayers ==
    /\ \/ InitMoEForward /\ DecIdle
       \/ InitDecoder /\ MoeIdle /\ AttnIdle
    /\ SanIdle
    /\ ModIdle

SpecLayers == InitLayers /\ [][NextLayers]_vars

InitWindow ==
    /\ InitAttnWindow
    /\ MoeIdle
    /\ SanIdle
    /\ DecIdle
    /\ ModIdle

SpecWindow == InitWindow /\ [][NextAttn]_vars

NextLoss == Loss_forward

SpecLoss == InitLoss /\ [][NextLoss]_vars

NextModel ==
    \/ Model_token_position_embeddings
    \/ Model_decoder_layer
    \/ Model_final_layer_norm
    \/ Model_lm_head

SpecModel == InitModel /\ [][NextModel]_vars

NextConstruction ==
    \/ Qwen2Attention_init
    \/ Qwen2Attention_call
    \/ init_model_randomly
    \/ init_model_randomly_parametrize
    \/ init_model_randomly_return

SpecConstruction == InitConstruction /\ [][NextConstruction]_vars

NextDataloader ==
    \/ CallDataloader
    \/ sanity_check_dataloader_batch
    \/ BarrierDataloader

SpecDataloader == InitDataloader /\ [][NextDataloader]_vars

NextCombine == Qwen2MoELayer_combine_expert_outputs

SpecCombine == InitCombine /\ [][NextCombine]_vars

NextSynced == CallSynced \/ Broadcast

SpecSynced == InitSynced /\ [][NextSynced]_vars

NextAfterOptimStep == CallAfterOptimStep

SpecAfterOptimStep ==
    InitCheckpoint("after_optim_step") /\ [][NextAfterOptimStep]_vars

NextBeforeOptimStep == CallBeforeOptimStep \/ Broadcast

SpecBeforeOptimStep ==
    InitCheckpoint("before_optim_step") /\ [][NextBeforeOptimStep]_vars


(***************************************************************************)
(* Claims about attention, checked under SpecAttn.                         *)
(***************************************************************************)
AttnDone == attn_pc \in {"returned", "raised"}

\* C1: for every flattened position-id sequence the mask of
\* get_attention_mask has mask[i][j] true iff j <= i and no index p with
\* j < p <= i holds position id 0.  (Fails: tokens before the first 0 get an
\* all-false row.)
C1_MaskIsBlockDiagonal ==
    AttnDone =>
        LET position_ids == attn_out.position_ids
            T == Len(position_ids)
        IN \A i, j \in 0..(T - 1) :
              (<<i, j>> \in attn_out.attention_mask)
                  <=> (j <= i /\ \A p \in (j + 1)..i : position_ids[p + 1] # 0)

\* C2: whenever the attention function is called it is handed the document
\* structure computed from the position ids: the block-diagonal mask or the
\* cu_seqlens.  (Fails: attention_mask=None and cu_seqlens is not passed.)
C2_DocumentStructureHandedOver ==
    attn_call.called =>
        \/ attn_call.mask_given /\ attn_call.attention_mask = attn_out.attention_mask
        \/ attn_call.cu_given /\ attn_call.cu_seqlens = attn_out.cu_seqlens

\* C3: for every packed batch of T >= 1 tokens the forward completes without
\* error and returns T rows of width local_heads * head_dim.  (Fails: the
\* view(3, -1, heads, head_dim) needs T to be a multiple of 3.)
C3_OneRowPerToken ==
    AttnDone =>
        /\ attn_pc = "returned"
        /\ attn_out.rows = attn_in.cfg.tokens
        /\ attn_out.width = attn_in.cfg.local_num_heads * attn_in.cfg.head_dim

(***************************************************************************)
(* Claims about the MoE layer, checked under SpecMoE.                      *)
(***************************************************************************)
MoeDone == moe_pc \in {"returned", "raised"}

MoeTokens == DOMAIN moe_in.hidden_states
MoeSlots == 1..moe_in.cfg.top_k

\* The experts token t selected.
Selected(t) == {moe_route.routing_indices[t][a] : a \in MoeSlots}

\* The routing weight of token t for the expert e it selected.
WeightFor(t, e) ==
    moe_route.routing_weights[t][CHOOSE a \in MoeSlots : moe_route.routing_indices[t][a] = e]

\* C4 as claimed: with all experts local, a token's output row is the sum over
\* the experts it selected of weight(t, e) * expert_e(hidden state of t).
\* (Fails: the code scales the expert's input, and an expert is not linear.)
C4_WeightedSumOfExpertOutputs ==
    (moe_pc = "returned" /\ moe_in.cfg.expert_parallel_size = 1) =>
        \A t \in MoeTokens :
            moe_out.output[t] =
                RatSum([a \in MoeSlots |->
                           RatMul(moe_route.routing_weights[t][a],
                                  Qwen2MLP_forward(moe_route.routing_indices[t][a],
                                                   RatInt(moe_in.hidden_states[t])))],
                       MoeSlots)

\* C4 amended: with all experts local, a token's output row is the sum over
\* exactly the top_k experts it selected of expert_e applied to
\* weight(t, e) * hidden state of t; no other expert contributes.
C4_SumOfExpertsOnScaledTokens ==
    (MoeDone /\ moe_in.cfg.expert_parallel_size = 1) =>
        /\ moe_pc = "returned"
        /\ \A t \in MoeTokens :
              moe_out.output[t] =
                  RatSum([a \in MoeSlots |->
                             Qwen2MLP_forward(moe_route.routing_indices[t][a],
                                              RatMul(moe_route.routing_weights[t][a],
                                                     RatInt(moe_in.hidden_states[t])))],
                         MoeSlots)

\* A token with two experts of unequal weight, both contributing, and an
\* expert it did not select.
C4_Witness ==
    /\ moe_pc = "returned"
    /\ moe_in.cfg.expert_parallel_size = 1
    /\ moe_in.cfg.top_k = 2
    /\ moe_in.cfg.num_experts = 3
    /\ \E t \in MoeTokens :
          /\ moe_route.routing_weights[t][1] # moe_route.routing_weights[t][2]
          /\ \A a \in MoeSlots :
                Qwen2MLP_forward(moe_route.routing_indices[t][a],
                                 RatMul(moe_route.routing_weights[t][a],
                                        RatInt(moe_in.hidden_states[t]))) # RatInt(0)

\* C5: for every token the router returns top_k pairwise distinct experts,
\* those with the largest logits, and top_k non-negative weights that sum to
\* 1 and are in the ratio of the exponentials of the selected logits (a
\* softmax over those logits alone); no other expert has a weight.
C5_TopKThenSoftmax ==
    MoeDone =>
        \A t \in MoeTokens :
            LET idx == moe_route.routing_indices[t]
                w == moe_route.routing_weights[t]
                lg == moe_route.router_logits[t]
                lo == CHOOSE m \in {lg[e] : e \in DOMAIN lg} : \A e \in DOMAIN lg : m <= lg[e]
            IN /\ DOMAIN idx = MoeSlots /\ DOMAIN w = MoeSlots
               /\ \A a \in MoeSlots : idx[a] \in 0..(moe_in.cfg.num_experts - 1)
               /\ \A a, b \in MoeSlots : a # b => idx[a] # idx[b]
               /\ \A e \in DOMAIN lg : e \notin Selected(t) =>
                     \A a \in MoeSlots : lg[idx[a]] >= lg[e]
               /\ \A a \in MoeSlots : w[a][1] >= 0 /\ w[a][2] > 0
               /\ RatSum(w, MoeSlots) = RatInt(1)
               /\ \A a, b \in MoeSlots :
                     RatMul(w[a], RatInt(Pow2(lg[idx[b]] - lo)))
                         = RatMul(w[b], RatInt(Pow2(lg[idx[a]] - lo)))

\* A token that selected two of three experts with different logits, the
\* third having a smaller logit.
C5_Witness ==
    /\ MoeDone
    /\ moe_in.cfg.top_k = 2
    /\ moe_in.cfg.num_experts = 3
    /\ \E t \in MoeTokens :
          /\ moe_route.routing_weights[t][1] = Rat(2, 3)
          /\ moe_route.routing_weights[t][2] = Rat(1, 3)
          /\ \E e \in 0..2 : e \notin Selected(t)

\* C6: an expert no token is routed to is never run and an empty result is
\* recorded for it, the forward does not raise, and the combined output is
\* what the experts that received tokens contribute, as if the others did not
\* exist; expert 0 and the case of no local expert receiving tokens included.
C6_ZeroTokenExpertSkipped ==
    MoeDone =>
        LET local == 0..(NumLocalExperts(moe_in.cfg) - 1)
            empty == {e \in local : \A t \in MoeTokens : e \notin Selected(t)}
        IN /\ moe_pc = "returned"
           /\ moe_out.invoked = local \ empty
           /\ \A e \in empty : moe_out.expert_outputs[e] = <<>> /\ moe_out.expert_counts[e] = 0
           /\ \A t \in MoeTokens :
                 moe_out.output[t] =
                     RatSum([e \in local \ empty |->
                                IF e \in Selected(t)
                                THEN Qwen2MLP_forward(e, RatMul(WeightFor(t, e),
                                                               RatInt(moe_in.hidden_states[t])))
                                ELSE RatInt(0)],
                            local \ empty)

\* Expert 0 received no token while another local expert did and contributed.
C6_Witness ==
    /\ moe_pc = "returned"
    /\ moe_out.expert_counts[0] = 0
    /\ \E e \in DOMAIN moe_out.expert_counts : moe_out.expert_counts[e] > 0
    /\ \E t \in MoeTokens : moe_out.output[t] # RatInt(0)

(***************************************************************************)
(* Claims about the sanity checks.                                         *)
(***************************************************************************)
ChecksOn(checkpoint) ==
    san_cfg.checkpoint = checkpoint /\ ~san_cfg.ignore_sanity_checks

Raised(rank, type, msg) ==
    /\ san_proc[rank].pc = "raised"
    /\ san_proc[rank].exc.type = type
    /\ san_proc[rank].exc.msg = msg

\* the rank's copy of the parameter is not close to its reference rank's
ParamDesynced(rank, name) ==
    ~assert_close(ParamData(rank, name),
                  ParamData(ReferenceRank(dp_cp_pg(rank)), name), Atol)

\* every rank holds the same parameters, tied parameters included, every
\* gradient and accumulator buffer is None or zero, every group's lr is the
\* scheduler's
AllInSync ==
    /\ \A r \in Ranks : \A n \in NamesOf(r) :
          /\ ParamData(r, n) = ParamData(ReferenceRank(dp_cp_pg(r)), n)
          /\ ParamGrad(r, n) \in {None, Fin(0)}
    /\ \A r \in Ranks : \A i \in 1..Len(tied_params_list(r)) :
          ParamData(r, tied_params_list(r)[i].name)
            = ParamData(ReferenceRank(TiedGroupRanks(r)),
                        tied_params_list(ReferenceRank(TiedGroupRanks(r)))[i].name)
    /\ \A r \in Ranks : \A n \in FullNamesOf(r) : Fp32GradBuffer(r, n) = Fin(0)
    /\ \A r \in Ranks : ParamGroupLrs(r) = LastLrs(r)

\* C7: in before_tbi_sanity_checks with checks enabled, a rank that holds a
\* parameter differing from the reference rank's copy by more than the
\* tolerance never returns, and once no rank can move a rank of its group has
\* raised an AssertionError naming a parameter on which it differs; when all
\* ranks hold identical parameters (gradients zero, lr in sync) no rank
\* raises and every rank returns.
C7_DesyncedParameterRaises ==
    ChecksOn("before_tbi") =>
        /\ \A r \in Ranks : \A n \in NamesOf(r) :
              ParamDesynced(r, n) =>
                /\ san_proc[r].pc # "returned"
                /\ Quiescent =>
                      \E q \in dp_cp_pg(r) :
                        /\ Raised(q, "AssertionError",
                                  "are not synchronized across DP_CP")
                        /\ ParamDesynced(q, san_proc[q].exc.name)
        /\ AllInSync =>
              /\ \A r \in Ranks : san_proc[r].exc = NoException
              /\ Quiescent => \A r \in Ranks : san_proc[r].pc = "returned"

C7_Witness ==
    /\ ChecksOn("before_tbi")
    /\ Quiescent
    /\ \E r \in Ranks :
          /\ r # ReferenceRank(dp_cp_pg(r))
          /\ Raised(r, "AssertionError", "are not synchronized across DP_CP")
          /\ ParamDesynced(r, san_proc[r].exc.name)
          /\ san_proc[r].broadcasts > 0

\* the parameters of the rank whose gradient the after-backward check reads
\* as NaN or Inf, by their position in named_parameters()
NanInfPositions(rank) ==
    {i \in 1..Len(named_parameters(StageOf(rank))) :
        LET param == named_parameters(StageOf(rank))[i]
        IN /\ RequiresGrad(rank, param)
           /\ GradOf(rank, param, GradName(param)) \in {NaN, Inf}}

\* C8: in after_tbi_sanity_checks with checks enabled, a rank on which the
\* gradient of some parameter requiring gradients is NaN or Inf raises a
\* ValueError naming the first such parameter (its full tied name if tied),
\* without running the hook.  (Fails: a missing gradient earlier in the list
\* raises a TypeError first.)
C8_NanInfGradientRaisesNamingParameter ==
    ChecksOn("after_tbi") =>
        \A r \in Ranks :
            (san_proc[r].pc # "ready" /\ NanInfPositions(r) # {}) =>
                LET first == CHOOSE i \in NanInfPositions(r) :
                                \A j \in NanInfPositions(r) : i <= j
                IN /\ Raised(r, "ValueError", "Gradient is nan or inf for")
                   /\ san_proc[r].exc.name
                        = GradName(named_parameters(StageOf(r))[first])
                   /\ san_proc[r].hooks = <<>>

\* the parameters of the rank that require gradients and have none
MissingGradParams(rank) ==
    {i \in 1..Len(named_parameters(StageOf(rank))) :
        LET param == named_parameters(StageOf(rank))[i]
        IN /\ RequiresGrad(rank, param)
           /\ GradOf(rank, param, GradName(param)) = None}

\* C9: in after_tbi_sanity_checks with checks enabled, a rank on which no
\* gradient is NaN or Inf and some parameter requiring gradients has no
\* gradient returns without raising, having logged an error naming each such
\* parameter and having run the hook.  (Fails: torch.isnan(None) raises a
\* TypeError before the log statement.)
C9_MissingGradientLoggedNotRaised ==
    ChecksOn("after_tbi") =>
        \A r \in Ranks :
            (/\ san_proc[r].pc # "ready"
             /\ NanInfPositions(r) = {}
             /\ MissingGradParams(r) # {}) =>
                /\ san_proc[r].pc = "returned"
                /\ \A i \in MissingGradParams(r) :
                      \E k \in 1..Len(san_proc[r].logs) :
                        /\ san_proc[r].logs[k].level = "ERROR"
                        /\ san_proc[r].logs[k].name
                             = GradName(named_parameters(StageOf(r))[i])
                /\ san_proc[r].hooks = << "after_tbi_sanity_checks" >>

\* C10: with ignore_sanity_checks set, whichever of the four checkpoints is
\* called and whatever the ranks hold, no rank joins a broadcast, raises,
\* logs or calls the model's hook, and every rank that has called has
\* returned.
C10_DisabledChecksAreNoOps ==
    san_cfg.ignore_sanity_checks =>
        \A r \in Ranks :
            /\ san_proc[r].pc \in {"ready", "returned"}
            /\ san_proc[r].broadcasts = 0
            /\ san_proc[r].exc = NoException
            /\ san_proc[r].logs = <<>>
            /\ san_proc[r].hooks = <<>>

C10_Witness ==
    /\ san_cfg.ignore_sanity_checks
    /\ san_cfg.checkpoint = "before_optim_step"
    /\ \A r \in Ranks : san_proc[r].pc = "returned"
    /\ \E r \in Ranks : \E n \in NamesOf(r) : ParamDesynced(r, n)
    /\ \E d \in san_world : d.field = "grad" /\ d.value = None

\* C11: no checkpoint changes what it inspects: in every step of every rank,
\* a call as well as a completed broadcast, on reference and non-reference
\* ranks, passing or raising, the parameters, gradients, accumulator buffers,
\* optimizer state and flags of all ranks and the configuration stay what
\* they were; a checkpoint's statements depend on nothing else, so calling it
\* again runs the same statements on the same values.
C11_ChecksOnlyRead ==
    [][san_world' = san_world /\ san_cfg' = san_cfg]_vars

C11_Witness ==
    /\ ChecksOn("before_optim_step")
    /\ Quiescent
    /\ \E r \in Ranks :
          /\ r # ReferenceRank(dp_cp_pg(r))
          /\ san_proc[r].pc = "raised"
          /\ san_proc[r].broadcasts > 1
    /\ \E r \in Ranks :
          /\ r # ReferenceRank(dp_cp_pg(r))
          /\ san_proc[r].pc = "returned"
          /\ san_proc[r].broadcasts > 1

\* the parameter groups of the rank's optimizer whose lr is not the
\* scheduler's last lr for that group
LrMismatches(rank) ==
    {i \in 1..Len(ParamGroupLrs(rank)) : ParamGroupLrs(rank)[i] # LastLrs(rank)[i]}

\* C12: in before_tbi_sanity_checks with checks enabled, a rank on which the
\* lr of any parameter group of the optimizer, the first or a later one,
\* differs from the scheduler's last lr for that group does not return: it
\* raises.  (Fails: the loop over the groups ends in break after the first
\* group, so a mismatch in a later group goes unnoticed.)
C12_LrMismatchRaisesForEveryGroup ==
    ChecksOn("before_tbi") =>
        \A r \in Ranks :
            LrMismatches(r) # {} => san_proc[r].pc # "returned"

\* the parameter of rank's stage that is the rank's copy of the tied parameter
\* full_name
TiedParamOf(rank, full_name) ==
    CHOOSE p \in {tied_params_list(rank)[i] : i \in 1..Len(tied_params_list(rank))} :
        p.full_name = full_name

\* the two tensors are further apart than atol, or only one of them exists;
\* with atol = 0: they are not equal
Unequal(a, b, atol) ==
    IF a = None \/ b = None THEN a # b ELSE ~assert_close(a, b, atol)

\* One of the four synchronization conditions of the pre-optimizer-step check
\* is violated on the rank, tensors counting as unequal when further apart
\* than atol:
\* the rank's gradient of a tied parameter and the one of the reference rank
\* of its tied group, its gradient of a parameter and the one of the reference
\* rank of dp_cp_pg (both only for parameters requiring gradients, on both
\* ranks, whose gradients exist), its parameters and the ones of these two
\* reference ranks.
SyncViolated(r, atol) ==
    LET named == named_parameters(StageOf(r))
        dp0 == ReferenceRank(dp_cp_pg(r))
        tied0 == ReferenceRank(TiedGroupRanks(r))
        BothRequire(q, p, p0) == RequiresGrad(r, p) /\ RequiresGrad(q, p0)
    IN \E i \in 1..Len(named) :
        LET p == named[i]
        IN \/ Unequal(ParamData(r, p.name), ParamData(dp0, p.name), atol)
           \/ /\ BothRequire(dp0, p, p)
              /\ Unequal(GradOf(r, p, GradName(p)), GradOf(dp0, p, GradName(p)), atol)
           \/ /\ p.is_tied
              /\ LET p0 == TiedParamOf(tied0, p.full_name)
                 IN \/ Unequal(ParamData(r, p.name), ParamData(tied0, p0.name), atol)
                    \/ /\ BothRequire(tied0, p, p0)
                       /\ Unequal(GradOf(r, p, p.full_name),
                                  GradOf(tied0, p0, p0.full_name), atol)

\* a parameter of the rank requires gradients and has none
GradMissing(r) ==
    \E i \in 1..Len(named_parameters(StageOf(r))) :
        LET p == named_parameters(StageOf(r))[i]
        IN RequiresGrad(r, p) /\ GradOf(r, p, GradName(p)) = None

\* the exception of a rank that raised about a gradient names a parameter of
\* the rank that requires gradients
GradChecksExemptFrozen ==
    \A r \in Ranks :
        (/\ san_proc[r].pc = "raised"
         /\ san_proc[r].exc.msg \in
              {"Grad is None for",
               "[Before optimizer step] Tied weights grads are not synchronized",
               "[Before optimizer step] weights grads are not synchronized across DP_CP"})
        => \E i \in 1..Len(named_parameters(StageOf(r))) :
              LET p == named_parameters(StageOf(r))[i]
              IN RequiresGrad(r, p) /\ GradName(p) = san_proc[r].exc.name

SomeRankRaisedAssertion ==
    \E q \in Ranks :
        san_proc[q].pc = "raised" /\ san_proc[q].exc.type = "AssertionError"

\* C13 as stated: in before_optim_step_sanity_checks with checks enabled,
\* once no rank can move, some rank has raised an AssertionError whenever on
\* some rank a tied parameter's gradient, a gradient, a parameter or a tied
\* parameter is not equal to the reference rank's, or a parameter requiring
\* gradients has no gradient; exceptions about gradients name only parameters
\* that require gradients.  (Fails: tensors that differ by no more than the
\* tolerance of assert_close pass.)
C13_UnequalTensorsRaise ==
    (ChecksOn("before_optim_step") /\ Quiescent) =>
        /\ (\E r \in Ranks : SyncViolated(r, 0) \/ GradMissing(r))
              => SomeRankRaisedAssertion
        /\ GradChecksExemptFrozen

\* C13 amended: the same with "differs from the reference rank's by more than
\* the tolerance of assert_close" in place of "is not equal".
C13_TensorsApartRaise ==
    (ChecksOn("before_optim_step") /\ Quiescent) =>
        /\ (\E r \in Ranks : SyncViolated(r, Atol) \/ GradMissing(r))
              => SomeRankRaisedAssertion
        /\ GradChecksExemptFrozen

C13_Witness ==
    /\ ChecksOn("before_optim_step")
    /\ Quiescent
    /\ \E r \in Ranks :
          /\ r # ReferenceRank(TiedGroupRanks(r))
          /\ SyncViolated(r, Atol)
          /\ Raised(r, "AssertionError",
                    "[Before optimizer step] Tied weights grads are not synchronized")
          /\ san_proc[r].broadcasts = 1

\* the state tensors of the optimizer other than the step counters
ComparedStateKeys == {StateKeys[k] : k \in 1..Len(StateKeys)} \ {"step"}

\* the state tensors of the rank that are further than the tolerance from the
\* ones of the reference rank of dp_cp_pg, as <<parameter, key>>
StateApart(r) ==
    {nk \in NamesOf(r) \X ComparedStateKeys :
        ~assert_close(OptimState(r, nk[1], nk[2]),
                      OptimState(ReferenceRank(dp_cp_pg(r)), nk[1], nk[2]), Atol)}

\* the ranks differ from the synchronized state in nothing but fields
OnlyDeviate(fields) ==
    san_world # {} /\ \A d \in san_world : d.field \in fields

\* C14: in before_optim_step_sanity_checks with checks enabled, once no rank
\* can move: if some rank holds a state tensor other than "step" further than
\* the tolerance from the reference rank's, some rank has raised an
\* AssertionError; if the ranks differ in optimizer state only, the ranks that
\* raised are exactly the ranks holding such a tensor, each with "are not
\* synced across DP" naming the key of one of them; if they differ in step
\* counters only, every rank has returned without an exception.
C14_OptimStateSyncedExceptStep ==
    (ChecksOn("before_optim_step") /\ Quiescent) =>
        /\ (\E r \in Ranks : StateApart(r) # {}) => SomeRankRaisedAssertion
        /\ OnlyDeviate({"step"} \cup ComparedStateKeys) =>
              \A r \in Ranks :
                 IF StateApart(r) # {}
                 THEN /\ Raised(r, "AssertionError", "are not synced across DP")
                      /\ \E nk \in StateApart(r) : nk[2] = san_proc[r].exc.name
                 ELSE san_proc[r].pc # "raised"
        /\ OnlyDeviate({"step"}) =>
              \A r \in Ranks :
                 san_proc[r].pc = "returned" /\ san_proc[r].exc = NoException

C14_Witness ==
    /\ ChecksOn("before_optim_step")
    /\ Quiescent
    /\ \E r \in Ranks :
          /\ Raised(r, "AssertionError", "are not synced across DP")
          /\ san_proc[r].exc.name = "exp_avg_sq"
          /\ StateApart(r) # {}
          /\ \E n \in NamesOf(r) :
                OptimState(r, n, "step")
                    # OptimState(ReferenceRank(dp_cp_pg(r)), n, "step")

\* some gradient of the rank exists and is not zero
GradNonZero(r) == \E n \in NamesOf(r) : ParamGrad(r, n) \notin {None, Fin(0)}

\* some fp32 buffer of the rank's gradient accumulator is not zero
BufferNonZero(r) ==
    /\ san_cfg.grad_accumulator
    /\ \E n \in FullNamesOf(r) : Fp32GradBuffer(r, n) # Fin(0)

GradsMustBeZero ==
    "Model half precision grads must be zeroed or None in first accumulation step."

BuffersMustBeZero ==
    "Grad accumulator buffers must be zeroed in first accumulation step."

\* C15: in before_tbi_sanity_checks with checks enabled, a rank holding a
\* gradient that exists and is not exactly zero, or an accumulator buffer that
\* is not exactly zero, does not return and does not reach the hook; when the
\* parameters are synchronized it raises an AssertionError, about the
\* gradients if one of them is not zero and about the buffers otherwise; a
\* rank whose gradients are all None or zero and whose buffers are all zero
\* raises neither of the two.
C15_NonZeroGradientRaises ==
    ChecksOn("before_tbi") =>
        \A r \in Ranks :
            /\ (GradNonZero(r) \/ BufferNonZero(r)) =>
                  /\ san_proc[r].pc # "returned"
                  /\ san_proc[r].hooks = <<>>
            /\ (Quiescent /\ \A d \in san_world : d.field # "param") =>
                  /\ GradNonZero(r) => Raised(r, "AssertionError", GradsMustBeZero)
                  /\ (~GradNonZero(r) /\ BufferNonZero(r)) =>
                        Raised(r, "AssertionError", BuffersMustBeZero)
            /\ ~GradNonZero(r) => san_proc[r].exc.msg # GradsMustBeZero
            /\ (~GradNonZero(r) /\ ~BufferNonZero(r)) =>
                  san_proc[r].exc.msg # BuffersMustBeZero

C15_Witness ==
    /\ ChecksOn("before_tbi")
    /\ \E r \in Ranks :
          /\ Raised(r, "AssertionError", BuffersMustBeZero)
          /\ \E n \in NamesOf(r) : ParamGrad(r, n) = Fin(0)
          /\ \E n \in NamesOf(r) : ParamGrad(r, n) = None
          /\ \E n \in FullNamesOf(r) : Fp32GradBuffer(r, n) = Fin(1)

\* the parameters of the rank that require gradients and still have one, in
\* the order of named_parameters()
LeftoverGrads(r) ==
    SelectSeq(named_parameters(StageOf(r)),
              LAMBDA p : RequiresGrad(r, p) /\ ParamGrad(r, p.name) # None)

\* C16: in after_optim_step_sanity_checks with checks enabled, a rank that has
\* called has returned without an exception, has called the model's hook once,
\* and has logged exactly one ERROR record per parameter that requires
\* gradients and still has a gradient, naming it, in the order of the
\* parameters.
C16_LeftoverGradientLoggedNotRaised ==
    ChecksOn("after_optim_step") =>
        \A r \in Ranks :
            san_proc[r].pc # "ready" =>
                /\ san_proc[r].pc = "returned"
                /\ san_proc[r].exc = NoException
                /\ san_proc[r].hooks = << "after_optim_step_sanity_checks" >>
                /\ Len(san_proc[r].logs) = Len(LeftoverGrads(r))
                /\ \A k \in 1..Len(san_proc[r].logs) :
                      /\ san_proc[r].logs[k].level = "ERROR"
                      /\ san_proc[r].logs[k].name = LeftoverGrads(r)[k].name
                      /\ san_proc[r].logs[k].msg
                           = "still has gradient despite having ran the optimizer"

C16_Witness ==
    /\ ChecksOn("after_optim_step")
    /\ \E r \in Ranks :
          /\ san_proc[r].pc = "returned"
          /\ Len(san_proc[r].logs) = 2
          /\ san_proc[r].hooks = << "after_optim_step_sanity_checks" >>

\* C17: in one call of assert_tensor_synced_across_pg by every rank of a
\* group, no rank takes part in more than one broadcast and a rank that has
\* returned or raised has taken part in exactly one; the reference rank does
\* not raise; a rank other than the reference rank that has left the call has
\* raised iff its tensor is not within tolerance of the reference rank's.
\* (Fails: a reference rank whose tensor holds a NaN raises, its tensor not
\* being close to itself.)
C17_ReferenceRankNeverRaises ==
    san_cfg.checkpoint = "assert_tensor_synced_across_pg" =>
        \A r \in Ranks :
            /\ san_proc[r].broadcasts <= 1
            /\ san_proc[r].pc \in {"returned", "raised"} =>
                  san_proc[r].broadcasts = 1
            /\ r = ReferenceRank(dp_cp_pg(r)) => san_proc[r].pc # "raised"
            /\ (r # ReferenceRank(dp_cp_pg(r))
                  /\ san_proc[r].pc \in {"returned", "raised"}) =>
                  (san_proc[r].pc = "raised"
                     <=> ~assert_close(ParamData(r, SyncedParameter(r)),
                                       ParamData(ReferenceRank(dp_cp_pg(r)),
                                                 SyncedParameter(r)), Atol))

(***************************************************************************)
(* Claims about the layers' forward, checked under SpecLayers.             *)
(***************************************************************************)
MoeForwardDone == moe_pc \in {"returned", "raised"} /\ dec_pc = "idle"

DecoderDone == dec_pc \in {"returned", "raised"}

C19_SharedExpertAdditive ==
    (MoeForwardDone /\ moe_out.status = "ok") =>
        \E base \in {core_forward([moe_in.cfg EXCEPT !.enable_shared_expert = FALSE],
                                  moe_in.hidden_states, moe_route.routing_weights,
                                  moe_route.routing_indices)} :
            /\ base.status = "ok"
            /\ ~base.shared_expert_ran
            /\ moe_out.core.routed_output = base.output
            /\ moe_out.core.shared_expert_ran = moe_in.cfg.enable_shared_expert
            /\ IF moe_in.cfg.enable_shared_expert
               THEN /\ DOMAIN moe_out.core.shared_gate = DOMAIN moe_in.hidden_states
                    /\ \A t \in DOMAIN moe_in.hidden_states :
                        \E gate \in {moe_out.core.shared_gate[t]} :
                          /\ 0 <= gate[1]
                          /\ gate[1] <= gate[2]
                          /\ moe_out.hidden_states[t]
                               = RatAdd(base.output[t],
                                        RatMul(gate,
                                               Qwen2MLP_forward(SharedExpertIdx,
                                                   RatInt(moe_in.hidden_states[t]))))
               ELSE /\ moe_out.hidden_states = base.output
                    /\ moe_out.core.shared_gate = <<>>

\* a layer with a shared expert has returned an output in which two tokens
\* routed to different experts both carry a non-zero shared contribution
C19_Witness ==
    /\ moe_pc = "returned"
    /\ dec_pc = "idle"
    /\ moe_in.cfg.enable_shared_expert
    /\ moe_out.core.shared_expert_ran
    /\ Len(moe_in.hidden_states) = 2
    /\ moe_route.routing_indices[1] # moe_route.routing_indices[2]
    /\ \A t \in 1..2 :
          moe_out.hidden_states[t] # moe_out.core.routed_output[t]

(***************************************************************************)
(* Claims about _combine_expert_outputs, checked under SpecCombine.        *)
(***************************************************************************)
\* the experts token t selected, and those of them this rank holds
CombineSelected(t) ==
    {moe_route.routing_indices[t][a] : a \in DOMAIN moe_route.routing_indices[t]}

LocalSelected(t) == CombineSelected(t) \cap DOMAIN moe_in.expert_outputs

\* the rows added to token t, in the order of the sequence experts
AddedRows(experts, t) ==
    [i \in DOMAIN experts |->
        ExpertRow(moe_in.expert_outputs, moe_route.routing_indices, experts[i], t)]

\* ((0 + rows[1]) + rows[2]) + ... in float32, from rows[i] on
RECURSIVE FloatFold(_, _, _)
FloatFold(rows, i, total) ==
    IF i > Len(rows) THEN total ELSE FloatFold(rows, i + 1, FloatAdd(total, rows[i]))

RatLeq(a, b) == a[1] * b[2] <= b[1] * a[2]

RatDistance(a, b) ==
    LET diff == RatAdd(a, <<0 - b[1], b[2]>>) IN <<Abs(diff[1]), diff[2]>>

\* row is the sum of rows, computed in some order with n - 1 roundings to
\* float32 at most: |row - sum| <= (n - 1) * 2^-(MantissaBits - 1) * sum |x|
WithinRounding(row, rows) ==
    LET exact == RatSum(rows, DOMAIN rows)
        total == RatSum([i \in DOMAIN rows |-> <<Abs(rows[i][1]), rows[i][2]>>],
                        DOMAIN rows)
    IN RatLeq(RatMul(RatInt(MantissaStart), RatDistance(row, exact)),
              RatMul(RatInt(IF Len(rows) = 0 THEN 0 ELSE Len(rows) - 1), total))

\* acc is an accumulation over the experts of selected[t], one addition each
Accumulates(acc, t, selected) ==
    /\ Len(acc.added[t]) = Cardinality(selected)
    /\ {acc.added[t][i] : i \in DOMAIN acc.added[t]} = selected
    /\ acc.output[t] = FloatFold(AddedRows(acc.added[t], t), 1, RatInt(0))

\* C20 as claimed: every token row receives exactly one addition per distinct
\* expert the token selected, and the loop run over the experts in any other
\* order gives the same combined output.  (Fails: an expert held by another
\* rank adds nothing, and three or more float32 additions round differently
\* in a different order.)
C20_CombineOrderIndependent ==
    moe_pc = "returned" =>
        /\ \A t \in 1..moe_in.tokens :
              /\ Accumulates(moe_out, t, CombineSelected(t))
              /\ Accumulates(moe_out.permuted, t, CombineSelected(t))
        /\ moe_out.permuted.output = moe_out.output

\* C20 amended: starting from zeros, every token row receives exactly one
\* float32 addition per distinct expert of this rank that the token selected
\* (every expert it selected when expert_parallel_size is 1), in the order
\* the experts are visited; visiting the experts in another order adds the
\* same rows, gives the same row where at most two rows are added, and
\* otherwise a row that differs by the rounding of the additions only.
C20_CombineSameUpToRounding ==
    moe_pc = "returned" =>
        \A t \in 1..moe_in.tokens :
            /\ Accumulates(moe_out, t, LocalSelected(t))
            /\ Accumulates(moe_out.permuted, t, LocalSelected(t))
            /\ moe_in.cfg.expert_parallel_size = 1 => LocalSelected(t) = CombineSelected(t)
            /\ Cardinality(LocalSelected(t)) <= 2
                  => moe_out.permuted.output[t] = moe_out.output[t]
            /\ WithinRounding(moe_out.output[t], AddedRows(moe_out.added[t], t))
            /\ WithinRounding(moe_out.permuted.output[t], AddedRows(moe_out.added[t], t))

\* three experts were added to one row in an order other than 0, 1, 2, and
\* the row differs from the one of the loop in order
C20_Witness ==
    /\ moe_pc = "returned"
    /\ moe_in.cfg.expert_parallel_size = 1
    /\ moe_in.order # EnumerateOrder(moe_in.expert_outputs)
    /\ \E t \in 1..moe_in.tokens :
          /\ Len(moe_out.permuted.added[t]) = 3
          /\ moe_out.permuted.output[t] # moe_out.output[t]

(***************************************************************************)
(* Claims about sliding-window attention, checked under SpecWindow.        *)
(***************************************************************************)
\* the layer is one the configuration asks sliding-window attention for
WindowActive ==
    /\ attn_in.cfg.window.use_sliding_window
    /\ attn_in.cfg.window.sliding_window # NoWindow
    /\ attn_in.cfg.window.layer_idx >= attn_in.cfg.window.max_window_layers

\* C21: when use_sliding_window is set, sliding_window is not None and
\* layer_idx >= max_window_layers, the attention function is called with
\* that window size; for a layer below the threshold it is called without a
\* window.  (Fails: the window is read and dropped, the call passes none.)
C21_WindowHandedToAttention ==
    attn_call.called =>
        IF WindowActive
        THEN /\ attn_call.window_given
             /\ attn_call.sliding_window = attn_in.cfg.window.sliding_window
        ELSE ~attn_call.window_given

(***************************************************************************)
(* Claims about the loss, checked under SpecLoss.                          *)
(***************************************************************************)
\* the tokens of the batch with mask 1, in order
CountedTokens == SortedSeq({t \in DOMAIN mod_in.label_mask : mod_in.label_mask[t] = 1})

\* the sum of the losses of the tokens with mask 1 divided by their number
MeanOverCounted(loss) ==
    LossDiv(LossSum([i \in DOMAIN CountedTokens |-> loss[CountedTokens[i]]]),
            Len(CountedTokens))

\* C22: with at least one token of mask 1, the loss returned is the sum of
\* the per-token losses of the tokens with mask 1 divided by their number,
\* and it is the same for a batch that differs in the losses of tokens with
\* mask 0 only.  (Fails: a NaN or infinite loss at a token with mask 0 times
\* 0 is NaN, and the mean is NaN.)
C22_MaskedMeanIgnoresMaskedTokens ==
    (mod_pc = "returned" /\ Len(CountedTokens) >= 1) =>
        /\ mod_out.loss = MeanOverCounted(mod_in.loss)
        /\ mod_out.other_loss = mod_out.loss

(***************************************************************************)
(* C23.  Qwen2Model.forward is a linear chain: the embedding block, then   *)
(* the decoder layers 0..N-1, each once and in increasing order, then the  *)
(* final norm, then the output projection.  Every block is given only      *)
(* values returned by the block called just before it (hidden_states and   *)
(* position_ids between decoder layers), and a forward that returns has    *)
(* called the whole chain, also when N = 0.                                *)
(***************************************************************************)
ModelChain(N) ==
    << "token_position_embeddings" >> \o [i \in 1..N |-> "decoder"]
        \o << "final_layer_norm", "lm_head" >>

ChainInOrder(calls, N) ==
    /\ Len(calls) <= N + 3
    /\ \A k \in DOMAIN calls :
          /\ calls[k].block = ModelChain(N)[k]
          /\ calls[k].layer_idx = IF calls[k].block = "decoder" THEN k - 2 ELSE -1

ConsumesPreceding(calls) ==
    \A k \in DOMAIN calls :
       /\ \A key \in DOMAIN calls[k].consumed : calls[k].consumed[key] = k - 1
       /\ calls[k].block = "decoder"
             => DOMAIN calls[k].consumed = {"hidden_states", "position_ids"}

C23_ForwardIsLinearChain ==
    (mod_in.call = "Qwen2Model.forward" /\ mod_pc # "ready")
        => /\ ChainInOrder(mod_out.calls, mod_in.num_hidden_layers)
           /\ ConsumesPreceding(mod_out.calls)
           /\ mod_pc = "returned"
                 => /\ Len(mod_out.calls) = mod_in.num_hidden_layers + 3
                    /\ mod_out.sharded_logits.by = Len(mod_out.calls)

C23_Witness ==
    /\ mod_in.call = "Qwen2Model.forward"
    /\ mod_pc = "returned"
    /\ mod_in.num_hidden_layers >= 2
    /\ C23_ForwardIsLinearChain

C23_WitnessNoLayers ==
    /\ mod_in.call = "Qwen2Model.forward"
    /\ mod_pc = "returned"
    /\ mod_in.num_hidden_layers = 0

(***************************************************************************)
(* C24.  Configuration errors are rejected at construction time: an        *)
(* attention key that is not registered makes the construction of the      *)
(* attention module fail, before any forward call, and an init method      *)
(* that is neither RandomInit nor SpectralMupInit makes                    *)
(* init_model_randomly raise ValueError before any parameter has been      *)
(* initialized.                                                            *)
(***************************************************************************)
UnregisteredKeyRejected ==
    (mod_in.call = "Qwen2Attention"
        /\ mod_in.config.attn_implementation \notin RegisteredAttention
        /\ mod_pc # "ready")
        => mod_pc = "raised" /\ mod_out.forward_calls = 0

UnknownInitMethodRejected ==
    (mod_in.call = "init_model_randomly"
        /\ mod_in.init_method \notin {"RandomInit", "SpectralMupInit"}
        /\ mod_pc # "ready")
        => /\ mod_pc = "raised"
           /\ mod_out.status = "ValueError"
           /\ mod_out.initialized_parameters = {}

C24_ConfigurationErrorsAtConstruction ==
    UnregisteredKeyRejected /\ UnknownInitMethodRejected

\* the half of the claim about init_model_randomly, reached
C24_UnknownInitMethodRaised ==
    /\ mod_in.call = "init_model_randomly"
    /\ mod_in.init_method = "ExistingCheckpointInit"
    /\ mod_pc = "raised"

(***************************************************************************)
(* C25.  If every rank enters the same checkpoint with checks enabled,     *)
(* the same parameter names, requires_grad flags and tied groups within    *)
(* its groups and synchronized tensors, then the ranks of a group issue    *)
(* their broadcasts on it in the same order, sorted by name within each    *)
(* loop, and with the same count, and every rank eventually returns from   *)
(* the checkpoint.                                                         *)
(***************************************************************************)
TiedKeys ==
    UNION {{param.name, param.full_name} :
              param \in TiedParametersOf(0) \cup TiedParametersOf(1)}

\* every tensor and flag is the same on all the ranks of a group that hold it
SynchronizedEntry ==
    /\ ~san_cfg.ignore_sanity_checks
    /\ \A d \in san_world :
          d.field # "lr" => /\ \A r \in d.ranks : dp_cp_pg(r) \subseteq d.ranks
                            /\ d.key \notin TiedKeys

IssuedOn(rank, pg) ==
    LET On(b) == b.pg = pg
    IN SelectSeq(san_proc[rank].issued, On)

IsPrefix(a, b) == Len(a) <= Len(b) /\ \A i \in 1..Len(a) : a[i] = b[i]

Left(rank) == san_proc[rank].pc \in {"returned", "raised"}

\* within one loop (one message) the names go up in Python's order
SortedByName(issued) ==
    \A i, j \in {k \in 1..Len(issued) : issued[k].name \in TiedKeys \cup
                     UNION {NamesOf(r) : r \in Ranks}} :
        (i < j /\ issued[i].msg = issued[j].msg /\ issued[i].pg = issued[j].pg)
            => NameIndex(issued[i].name) < NameIndex(issued[j].name)

SameBroadcasts ==
    SynchronizedEntry
        => /\ \A r \in Ranks : SortedByName(san_proc[r].issued)
           /\ \A pg \in ProcessGroups : \A p, q \in pg :
                 /\ IsPrefix(IssuedOn(p, pg), IssuedOn(q, pg))
                       \/ IsPrefix(IssuedOn(q, pg), IssuedOn(p, pg))
                 /\ (Left(p) /\ Left(q)) => IssuedOn(p, pg) = IssuedOn(q, pg)

AllReturned == \A r \in Ranks : san_proc[r].pc = "returned"

AllLeft == \A r \in Ranks : Left(r)

LocalAssertionsHold ==
    \A r \in Ranks : \E effects \in {Checkpoint(r)} :
        \A i \in 1..Len(effects) : effects[i].op # "raise"

RaisedAtEarlierCollective(effects, p) ==
    /\ p.pc = "raised"
    /\ effects[p.pos].op = "broadcast"
    /\ \E later \in (p.pos + 1)..Len(effects) : effects[later].op = "broadcast"

C26_ReferenceRankBlockedForever ==
    \A q \in Ranks : \E effects \in {Checkpoint(q)} :
        (/\ ChecksOn("before_tbi")
         /\ RaisedAtEarlierCollective(effects, san_proc[q])
         /\ q # ReferenceRank(effects[san_proc[q].pos].pg))
            => /\ san_proc[ReferenceRank(effects[san_proc[q].pos].pg)].pc = "waiting"
               /\ san_proc[ReferenceRank(effects[san_proc[q].pos].pg)].exc = NoException

\* the reference rank is blocked for ever when its next broadcast is on a
\* group that holds the rank that raised
C26_BlockedWhereRaisedRankIsAwaited ==
    \A q \in Ranks : \E effects \in {Checkpoint(q)} :
        (/\ ChecksOn("before_tbi")
         /\ RaisedAtEarlierCollective(effects, san_proc[q])
         /\ q # ReferenceRank(effects[san_proc[q].pos].pg)
         /\ effects[san_proc[q].pos + 1].op = "broadcast"
         /\ effects[san_proc[q].pos + 1].pg = effects[san_proc[q].pos].pg)
            => /\ san_proc[ReferenceRank(effects[san_proc[q].pos].pg)].pc = "waiting"
               /\ san_proc[ReferenceRank(effects[san_proc[q].pos].pg)].exc = NoException

\* the reference rank has returned although a rank of its group raised at an
\* earlier collective
C26_ReferenceRankReturned ==
    /\ ChecksOn("before_tbi")
    /\ \E q \in Ranks : \E effects \in {Checkpoint(q)} :
          /\ RaisedAtEarlierCollective(effects, san_proc[q])
          /\ q # ReferenceRank(effects[san_proc[q].pos].pg)
          /\ san_proc[ReferenceRank(effects[san_proc[q].pos].pg)].pc = "returned"

(***************************************************************************)
(* C27.  In _dispatch_tokens, for each local expert e (the indices of a    *)
(* token being pairwise distinct), the r-th gathered token row and the     *)
(* r-th gathered weight belong to the same token t, the weight is          *)
(* routing_weights[t, s] for the one slot s with routing_indices[t, s] =   *)
(* e, there are as many gathered rows as gathered weights, and             *)
(* expert_counts[e] is the number of tokens that selected e.               *)
(***************************************************************************)
DispatchAligned(d, e) ==
    /\ Len(d.gathered_tokens) = Len(d.expert_weights)
    /\ \A r \in 1..Len(d.gathered_tokens) :
          LET t == d.gathered_tokens[r]
              s == d.k_positions[r]
          IN /\ d.token_positions[r] = t
             /\ moe_route.routing_indices[t][s] = e
             /\ \A a \in MoeSlots : moe_route.routing_indices[t][a] = e => a = s
             /\ d.expert_weights[r] = moe_route.routing_weights[t][s]
             /\ d.scaled_inputs[r] =
                   RatMul(RatInt(moe_in.hidden_states[t]),
                          moe_route.routing_weights[t][s])
    /\ d.count = Cardinality({t \in MoeTokens : e \in Selected(t)})
    /\ moe_out.expert_counts[e] = d.count

C27_DispatchKeepsRowsAndWeightsAligned ==
    (moe_pc \in {"returned", "raised"})
        => /\ DOMAIN moe_out.dispatched = 0..(NumLocalExperts(moe_in.cfg) - 1)
           /\ \A e \in DOMAIN moe_out.dispatched :
                 DispatchAligned(moe_out.dispatched[e], e)

\* two tokens selected the same local expert in different slots, the later
\* token in the earlier slot
C27_Witness ==
    /\ moe_pc = "returned"
    /\ C27_DispatchKeepsRowsAndWeightsAligned
    /\ \E e \in DOMAIN moe_out.dispatched : \E t1, t2 \in MoeTokens :
          /\ t1 < t2
          /\ \E a1, a2 \in MoeSlots :
                /\ a2 < a1
                /\ moe_route.routing_indices[t1][a1] = e
                /\ moe_route.routing_indices[t2][a2] = e

(***************************************************************************)
(* C28.  With expert_parallel_size > 1 only the experts 0 ..                *)
(* num_local_experts - 1 are dispatched to, run and combined: an expert    *)
(* with a larger index contributes nothing to a token that selected it, a  *)
(* token whose selected experts are all of that kind gets an all-zero      *)
(* routed output row, and the call raises nothing.                         *)
(***************************************************************************)
LocalExperts == 0..(moe_in.cfg.num_experts \div moe_in.cfg.expert_parallel_size - 1)

C28_OnlyLocalExpertsContribute ==
    (MoeDone /\ moe_in.cfg.expert_parallel_size > 1) =>
        /\ moe_pc = "returned"
        /\ moe_out.status = "ok"
        /\ DOMAIN moe_out.dispatched_inputs = LocalExperts
        /\ DOMAIN moe_out.expert_outputs = LocalExperts
        /\ moe_out.invoked \subseteq LocalExperts
        /\ \A t \in MoeTokens :
              /\ moe_out.routed_output[t] =
                    RatSum([a \in MoeSlots |->
                               IF moe_route.routing_indices[t][a] \in LocalExperts
                               THEN Qwen2MLP_forward(moe_route.routing_indices[t][a],
                                        RatMul(moe_route.routing_weights[t][a],
                                               RatInt(moe_in.hidden_states[t])))
                               ELSE RatInt(0)],
                           MoeSlots)
              /\ Selected(t) \cap LocalExperts = {}
                    => moe_out.routed_output[t] = RatInt(0)

\* one token selected a local and a non-local expert that would both have
\* contributed, another only non-local experts
C28_Witness ==
    /\ moe_pc = "returned"
    /\ moe_in.cfg.expert_parallel_size > 1
    /\ \E t \in MoeTokens :
          /\ Selected(t) \cap LocalExperts # {}
          /\ \E a \in MoeSlots :
                /\ moe_route.routing_indices[t][a] \notin LocalExperts
                /\ Qwen2MLP_forward(moe_route.routing_indices[t][a],
                        RatMul(moe_route.routing_weights[t][a],
                               RatInt(moe_in.hidden_states[t]))) # RatInt(0)
    /\ \E t \in MoeTokens :
          /\ Selected(t) \cap LocalExperts = {}
          /\ moe_in.hidden_states[t] # 0
          /\ moe_out.routed_output[t] = RatInt(0)

(***************************************************************************)
(* C29.  The position ids a decoder layer returns are the ids of the batch *)
(* with -1 replaced by 0, flattened; the remap-and-flatten step leaves     *)
(* them as they are, so every decoder layer of the chain derives the mask  *)
(* and the cu_seqlens that the first layer derives.                        *)
(***************************************************************************)
\* the ids of the batch, row after row, -1 replaced by 0
RemappedIds ==
    LET flat == Flatten(mod_in.position_ids)
    IN [i \in 1..Len(flat) |-> IF flat[i] = -1 THEN 0 ELSE flat[i]]

\* the decoder calls of the chain that returned
ReturnedLayers ==
    {k \in DOMAIN mod_out.calls :
        mod_out.calls[k].block = "decoder" /\ mod_out.calls[k].produced # {}}

C29_EveryLayerDerivesTheSameMask ==
    (mod_in.call = "Qwen2Model.forward" /\ mod_pc # "ready")
        => /\ \A k \in ReturnedLayers :
                 /\ mod_out.calls[k].attention_mask = mod_out.calls[2].attention_mask
                 /\ mod_out.calls[k].cu_seqlens = mod_out.calls[2].cu_seqlens
           /\ ReturnedLayers # {}
                 => /\ mod_out.decoder_states.position_ids.value = << RemappedIds >>
                    /\ Flatten(MaskedFill(mod_out.decoder_states.position_ids.value))
                          = RemappedIds

\* two layers ran on a batch of several rows with padding
C29_Witness ==
    /\ mod_in.call = "Qwen2Model.forward"
    /\ mod_pc = "returned"
    /\ Cardinality(ReturnedLayers) >= 2
    /\ Len(mod_in.position_ids) > 1
    /\ \E i \in 1..Len(RemappedIds) : Flatten(mod_in.position_ids)[i] = -1
    /\ \E i \in 1..Len(RemappedIds) : Flatten(mod_in.position_ids)[i] > 0

(***************************************************************************)
(* C30.  sanity_check_dataloader returns at once, touching neither the     *)
(* dataloader nor a collective, when the interval is None; otherwise rank  *)
(* 0 inspects only batches whose index is a multiple of the interval,      *)
(* stops after at most 10 inspected batches and always ends by raising     *)
(* AssertionError without calling the barrier, while every other rank      *)
(* goes straight to the barrier and stays blocked there.                   *)
(***************************************************************************)
ReturnsAtOnceWithoutInterval ==
    ~mod_in.interval.given
        => \A r \in WorldRanks :
              /\ mod_pc[r] \in {"ready", "returned"}
              /\ mod_out[r] = DataloaderNotStarted

RankZeroInspectsAndRaises ==
    mod_in.interval.given
        => /\ \A k \in 1..Len(mod_out[0].inspected) :
                 \E m \in 0..MaxBatches :
                    mod_out[0].inspected[k] = m * mod_in.interval.value
           /\ Len(mod_out[0].inspected) <= NUM_BATCHES
           /\ mod_pc[0] \in {"ready", "loop", "raised"}
           /\ mod_pc[0] = "raised" => mod_out[0].exc = "AssertionError"
           /\ "barrier" \notin mod_out[0].touched

OtherRanksBlockedInBarrier ==
    mod_in.interval.given
        => \A r \in WorldRanks \ {0} :
              /\ mod_pc[r] \in {"ready", "barrier", "in_barrier"}
              /\ "dataloader" \notin mod_out[r].touched
              /\ mod_out[r].fetched = 0

C30_DataloaderCheckStopsTraining ==
    (mod_in.call = "sanity_check_dataloader")
        => /\ ReturnsAtOnceWithoutInterval
           /\ RankZeroInspectsAndRaises
           /\ OtherRanksBlockedInBarrier

\* the claim for the intervals of at least 1
C30_HoldsForPositiveIntervals ==
    (mod_in.call = "sanity_check_dataloader" /\ mod_in.interval.value >= 1)
        => /\ RankZeroInspectsAndRaises
           /\ OtherRanksBlockedInBarrier

\* rank 0 stopped after ten inspected batches, the other rank in the barrier
C30_TenBatchesInspected ==
    /\ mod_in.call = "sanity_check_dataloader"
    /\ mod_in.interval.value = 2
    /\ mod_pc[0] = "raised"
    /\ Len(mod_out[0].inspected) = NUM_BATCHES
    /\ mod_in.batches > mod_out[0].fetched
    /\ \E r \in WorldRanks : mod_pc[r] = "in_barrier"

=============================================================================
